---- MODULE Spec2Model ----
(***************************************************************************)
(* Checkout and inventory reservation of the e-commerce service.           *)
(*                                                                         *)
(* The committed database state (inventory, cart_items, orders) is shared  *)
(* by request workers.  Every worker runs one HTTP request as a database   *)
(* transaction under PostgreSQL's default READ COMMITTED isolation: each   *)
(* statement sees the rows committed when it starts, SELECT ... FOR UPDATE *)
(* waits for a row locked by another transaction and then returns the      *)
(* latest committed version of that row, and a transaction's own writes    *)
(* become visible to the others only at commit.                            *)
(***************************************************************************)
EXTENDS Integers, Sequences, FiniteSets, TLC

\* ---------------------------------------------------------------- bounds
NumProcs == 2

Procs == 1 .. NumProcs
Users == {1, 2}
Variants == {1, 2}

\* per-line quantity cap of the cart routes
MaxLineQty == 99

StockChoices == {3, 10}
\* initial carts: the quantity of each variant in the cart of user 1 and of
\* user 2 (0: no line)
CartOfOne(n) == [v \in Variants |-> IF v = 1 THEN n ELSE 0]
CartOfTwo(m, n) == [v \in Variants |-> IF v = 1 THEN m ELSE n]
CartChoices ==
    { <<CartOfOne(0), CartOfOne(3)>>,
      <<CartOfOne(5), CartOfOne(0)>>,
      <<CartOfOne(6), CartOfOne(6)>>,
      <<CartOfTwo(2, 4), CartOfOne(3)>>,
      <<CartOfTwo(2, 4), CartOfTwo(0, 6)>> }
AddQtyChoices == {1, MaxLineQty}
UpdateQtyChoices == {0, 6}
RepoQtyChoices == {-1, 2}
RepoStockChoices == {-1, 4}

VARIABLES
    inventory,      \* inventory table: variant_id -> [available, reserved]
    price_cents,    \* product_variants.price_cents
    cart_items,     \* cart_items table: set of rows
    next_item_id,   \* cart_items id sequence
    orders,         \* orders table with its order_items, in insertion order
    pc,             \* position of each request worker
    op,             \* the request a worker runs
    uid,            \* X-User-Id of the request
    snap,           \* rows returned by checkout's SELECT ... FOR UPDATE
    idx,            \* loop index of the worker
    locked,         \* inventory rows locked by the worker's transaction
    tx_inv,         \* uncommitted inventory writes of the transaction
    tx_order,       \* uncommitted order (with its lines) of the transaction
    arg,            \* request body and values read by a cart request
    outcome,        \* response of the finished request
    inv0,           \* inventory before any request ran
    carts           \* carts table: rows [user_id, tx], tx = 0 once committed

vars == <<inventory, price_cents, cart_items, next_item_id, orders, pc, op,
          uid, snap, idx, locked, tx_inv, tx_order, arg, outcome, inv0, carts>>

dbvars == <<inventory, cart_items, orders>>

NoOrder == [id |-> 0]
NoArg == [variant_id |-> 0]
NoWrites == [v \in {} |-> 0]

\* ------------------------------------------------------------- helpers
RECURSIVE SumSeq(_)
SumSeq(s) == IF s = <<>> THEN 0 ELSE Head(s) + SumSeq(Tail(s))

RECURSIVE SortedSeq(_)
\* the members of a finite set of integers in ascending order
SortedSeq(S) ==
    IF S = {} THEN <<>>
    ELSE LET m == CHOOSE x \in S : \A y \in S : x <= y
         IN  <<m>> \o SortedSeq(S \ {m})

CartOf(items, u) == {ci \in items : ci.user_id = u}

\* the inventory table without its CHECK constraints
CheckInventoryOff(row) == TRUE

\* CHECK (available >= 0), CHECK (reserved >= 0) on inventory
CheckInventory(row) == row.available >= 0 /\ row.reserved >= 0

\* the rows of the SELECT in the order of the cart lines' ids (ORDER BY ci.id)
CheckoutRowsByItemId(items, prices, inv, u) ==
    LET mine == CartOf(items, u)
        ids  == SortedSeq({ci.id : ci \in mine})
        lineOf(id) == CHOOSE ci \in mine : ci.id = id
    IN  [i \in 1 .. Len(ids) |->
            [cart_item_id |-> ids[i],
             variant_id   |-> lineOf(ids[i]).variant_id,
             quantity     |-> lineOf(ids[i]).quantity,
             price_cents  |-> prices[lineOf(ids[i]).variant_id],
             available    |-> inv[lineOf(ids[i]).variant_id].available,
             reserved     |-> inv[lineOf(ids[i]).variant_id].reserved]]

\* rows of checkout's SELECT for one user: cart_items joined with
\* product_variants and inventory, ORDER BY ci.variant_id
CheckoutRows(items, prices, inv, u) ==
    LET mine == CartOf(items, u)
        vs   == SortedSeq({ci.variant_id : ci \in mine})
        lineOf(v) == CHOOSE ci \in mine : ci.variant_id = v
    IN  [i \in 1 .. Len(vs) |->
            [cart_item_id |-> lineOf(vs[i]).id,
             variant_id   |-> vs[i],
             quantity     |-> lineOf(vs[i]).quantity,
             price_cents  |-> prices[vs[i]],
             available    |-> inv[vs[i]].available,
             reserved     |-> inv[vs[i]].reserved]]

\* the stock check of one row of the SELECT
Sufficient(item) == ~(item.quantity > item.available - item.reserved)

\* an UPDATE whose WHERE clause matches no row
ApplyReserveNoRow(row, qty) == row

\* an UPDATE that decrements available and forgets reserved
ApplyReserveAvailableOnly(row, qty) ==
    [available |-> row.available - qty, reserved |-> row.reserved]

\* UPDATE inventory SET available = available - :qty, reserved = reserved + :qty
\* a reservation that moves the quantity twice
ApplyReserveTwice(row, qty) ==
    [available |-> row.available - 2 * qty, reserved |-> row.reserved + 2 * qty]

ApplyReserve(row, qty) ==
    [available |-> row.available - qty, reserved |-> row.reserved + qty]

\* a total that adds the unit prices and forgets the quantities
TotalCentsPerLine(items) ==
    SumSeq([i \in 1 .. Len(items) |-> items[i].price_cents])

\* total_cents = sum(quantity * price_cents)
TotalCents(items) ==
    SumSeq([i \in 1 .. Len(items) |-> items[i].quantity * items[i].price_cents])

\* one order_items row
\* an order line priced by a second read of the variant when it is inserted
OrderLineAtInsert(item) ==
    [variant_id       |-> item.variant_id,
     unit_price_cents |-> price_cents[item.variant_id],
     quantity         |-> item.quantity,
     subtotal_cents   |-> item.quantity * price_cents[item.variant_id]]

OrderLine(item) ==
    [variant_id       |-> item.variant_id,
     unit_price_cents |-> item.price_cents,
     quantity         |-> item.quantity,
     subtotal_cents   |-> item.quantity * item.price_cents]

\* CHECK constraints of orders and order_items
CheckOrder(o) ==
    /\ o.total_cents >= 0
    /\ \A i \in 1 .. Len(o.items) :
          /\ o.items[i].unit_price_cents >= 0
          /\ o.items[i].quantity > 0
          /\ o.items[i].subtotal_cents >= 0

\* inventory table after the transaction's writes are committed
Committed(inv, writes) ==
    [v \in Variants |-> IF v \in DOMAIN writes THEN writes[v] ELSE inv[v]]

\* a rollback that keeps the statements already executed (autocommit)
RolledBackPartly(inv, writes) ==
    [v \in Variants |-> IF v \in DOMAIN writes THEN writes[v] ELSE inv[v]]

\* inventory table after the transaction is rolled back
RolledBack(inv, writes) == inv

\* a DELETE that matches no cart
ClearCartNoRow(items, u) == items

\* DELETE FROM cart_items WHERE cart_id = (the user's cart)
\* a DELETE FROM cart_items without the WHERE clause
ClearCartOfAll(items, u) == {}

ClearCart(items, u) == items \ CartOf(items, u)

\* a lock on the whole inventory table instead of the row
LockFreeTable(v, p) == \A q \in Procs \ {p} : locked[q] = {}

\* no other transaction holds the lock of inventory row v
LockFree(v, p) == \A q \in Procs \ {p} : v \notin locked[q]

\* requests are handed to the workers of the pool in order
Free(p) == pc[p] = "idle" /\ \A q \in Procs : q < p => pc[q] # "idle"

\* ---------------------------------------------------------------- Init
Init ==
    /\ \E a \in StockChoices :
          inventory = [v \in Variants |-> [available |-> a, reserved |-> 0]]
    /\ price_cents = [v \in Variants |-> IF v = 1 THEN 250 ELSE 120]
    /\ \E c \in CartChoices :
          cart_items = {[id |-> (u - 1) * Cardinality(Variants) + v, user_id |-> u,
                         variant_id |-> v, quantity |-> c[u][v]] :
                        <<u, v>> \in {x \in Users \X Variants : c[x[1]][x[2]] > 0}}
    /\ next_item_id = Cardinality(Users) * Cardinality(Variants) + 1
    /\ orders = <<>>
    /\ pc = [p \in Procs |-> "idle"]
    /\ op = [p \in Procs |-> "none"]
    /\ uid = [p \in Procs |-> 0]
    /\ snap = [p \in Procs |-> <<>>]
    /\ idx = [p \in Procs |-> 0]
    /\ locked = [p \in Procs |-> {}]
    /\ tx_inv = [p \in Procs |-> NoWrites]
    /\ tx_order = [p \in Procs |-> NoOrder]
    /\ arg = [p \in Procs |-> NoArg]
    /\ outcome = [p \in Procs |-> "none"]
    /\ inv0 = inventory
    /\ carts = {[user_id |-> u, tx |-> 0] : u \in Users}

\* carts of two lines over the same variants; user 2 added variant 2
\* before variant 1, so its line ids run against the variant ids
OverlapChoices ==
    { <<CartOfTwo(2, 4), CartOfTwo(1, 1)>>,
      <<CartOfTwo(2, 4), CartOfTwo(0, 6)>>,
      <<CartOfTwo(1, 1), CartOfTwo(6, 1)>>,
      <<CartOfOne(3), CartOfTwo(2, 4)>>,
      <<CartOfOne(3), CartOfTwo(0, 6)>>,
      <<CartOfOne(6), CartOfTwo(0, 1)>> }

InitOverlap ==
    /\ \E a \in StockChoices :
          inventory = [v \in Variants |-> [available |-> a, reserved |-> 0]]
    /\ price_cents = [v \in Variants |-> IF v = 1 THEN 250 ELSE 120]
    /\ \E c \in OverlapChoices :
          cart_items = {[id |-> (u - 1) * Cardinality(Variants)
                                  + (IF u = 2 THEN Cardinality(Variants) + 1 - v ELSE v),
                         user_id |-> u, variant_id |-> v, quantity |-> c[u][v]] :
                        <<u, v>> \in {x \in Users \X Variants : c[x[1]][x[2]] > 0}}
    /\ next_item_id = Cardinality(Users) * Cardinality(Variants) + 1
    /\ orders = <<>>
    /\ pc = [p \in Procs |-> "idle"]
    /\ op = [p \in Procs |-> "none"]
    /\ uid = [p \in Procs |-> 0]
    /\ snap = [p \in Procs |-> <<>>]
    /\ idx = [p \in Procs |-> 0]
    /\ locked = [p \in Procs |-> {}]
    /\ tx_inv = [p \in Procs |-> NoWrites]
    /\ tx_order = [p \in Procs |-> NoOrder]
    /\ arg = [p \in Procs |-> NoArg]
    /\ outcome = [p \in Procs |-> "none"]
    /\ inv0 = inventory
    /\ carts = {[user_id |-> u, tx |-> 0] : u \in Users}

\* ------------------------------------------------------------ checkout
\* the request ends without commit: the connection is closed, the
\* transaction rolled back and its row locks released
\* a rollback that leaves the order row the transaction had inserted
AbortKeepsOrder(p, result) ==
    /\ inventory' = RolledBack(inventory, tx_inv[p])
    /\ orders' = IF tx_order[p] = NoOrder
                 THEN orders
                 ELSE Append(orders, [tx_order[p] EXCEPT !.id = Len(orders) + 1])
    /\ pc' = [pc EXCEPT ![p] = "done"]
    /\ outcome' = [outcome EXCEPT ![p] = result]
    /\ locked' = [locked EXCEPT ![p] = {}]
    /\ tx_inv' = [tx_inv EXCEPT ![p] = NoWrites]
    /\ tx_order' = [tx_order EXCEPT ![p] = NoOrder]
    /\ UNCHANGED <<price_cents, cart_items, next_item_id, op, uid,
                   snap, idx, arg, inv0, carts>>

Abort(p, result) ==
    /\ inventory' = RolledBack(inventory, tx_inv[p])
    /\ pc' = [pc EXCEPT ![p] = "done"]
    /\ outcome' = [outcome EXCEPT ![p] = result]
    /\ locked' = [locked EXCEPT ![p] = {}]
    /\ tx_inv' = [tx_inv EXCEPT ![p] = NoWrites]
    /\ tx_order' = [tx_order EXCEPT ![p] = NoOrder]
    /\ UNCHANGED <<price_cents, cart_items, next_item_id, orders, op, uid,
                   snap, idx, arg, inv0, carts>>

\* the SELECT starts: its snapshot fixes the cart rows and prices it returns
CheckoutSelect(p, u) ==
    /\ Free(p)
    /\ op' = [op EXCEPT ![p] = "checkout"]
    /\ uid' = [uid EXCEPT ![p] = u]
    /\ snap' = [snap EXCEPT ![p] = CheckoutRows(cart_items, price_cents, inventory, u)]
    /\ idx' = [idx EXCEPT ![p] = 1]
    /\ pc' = [pc EXCEPT ![p] = IF snap'[p] = <<>> THEN "validate" ELSE "locking"]
    /\ UNCHANGED <<inventory, price_cents, cart_items, next_item_id, orders,
                   locked, tx_inv, tx_order, arg, outcome, inv0, carts>>

\* a locking read that returns the row of the statement's snapshot instead
\* of the latest committed version
CheckoutLockStale(p) ==
    /\ pc[p] = "locking"
    /\ LET i == idx[p]
           v == snap[p][i].variant_id
       IN  /\ LockFree(v, p)
           /\ locked' = [locked EXCEPT ![p] = @ \cup {v}]
           /\ idx' = [idx EXCEPT ![p] = IF i = Len(snap[p]) THEN 1 ELSE i + 1]
           /\ pc' = [pc EXCEPT ![p] = IF i = Len(snap[p]) THEN "validate" ELSE "locking"]
    /\ UNCHANGED <<inventory, price_cents, cart_items, next_item_id, orders, op,
                   uid, snap, tx_inv, tx_order, arg, outcome, inv0, carts>>

\* FOR UPDATE OF i: lock the next inventory row, in ORDER BY order, waiting
\* while another transaction holds it; the row returned is its latest
\* committed version
CheckoutLock(p) ==
    /\ pc[p] = "locking"
    /\ LET i == idx[p]
           v == snap[p][i].variant_id
       IN  /\ LockFree(v, p)
           /\ locked' = [locked EXCEPT ![p] = @ \cup {v}]
           /\ snap' = [snap EXCEPT ![p][i].available = inventory[v].available,
                                   ![p][i].reserved = inventory[v].reserved]
           /\ idx' = [idx EXCEPT ![p] = IF i = Len(snap[p]) THEN 1 ELSE i + 1]
           /\ pc' = [pc EXCEPT ![p] = IF i = Len(snap[p]) THEN "validate" ELSE "locking"]
    /\ UNCHANGED <<inventory, price_cents, cart_items, next_item_id, orders, op,
                   uid, tx_inv, tx_order, arg, outcome, inv0, carts>>

\* validation without the empty-cart test: the loops over an empty list do
\* nothing and an order without lines is inserted
CheckoutValidateNoEmptyTest(p) ==
    /\ pc[p] = "validate"
    /\ IF \E i \in 1 .. Len(snap[p]) : ~Sufficient(snap[p][i])
       THEN Abort(p, "insufficient")
       ELSE /\ pc' = [pc EXCEPT ![p] = IF snap[p] = <<>> THEN "insert" ELSE "reserve"]
            /\ idx' = [idx EXCEPT ![p] = 1]
            /\ UNCHANGED <<inventory, price_cents, cart_items, next_item_id,
                           orders, op, uid, snap, locked, tx_inv, tx_order,
                           arg, outcome, inv0, carts>>

\* 2. validate cart: empty cart and insufficient stock abort with 400
CheckoutValidate(p) ==
    /\ pc[p] = "validate"
    /\ IF snap[p] = <<>>
       THEN Abort(p, "empty")
       ELSE IF \E i \in 1 .. Len(snap[p]) : ~Sufficient(snap[p][i])
       THEN Abort(p, "insufficient")
       ELSE /\ pc' = [pc EXCEPT ![p] = "reserve"]
            /\ idx' = [idx EXCEPT ![p] = 1]
            /\ UNCHANGED <<inventory, price_cents, cart_items, next_item_id,
                           orders, op, uid, snap, locked, tx_inv, tx_order,
                           arg, outcome, inv0, carts>>

\* 3. reserve inventory for the next item; a CHECK violation is an
\* IntegrityError and ends the request with 500 ("integrity")
CheckoutReserve(p) ==
    /\ pc[p] = "reserve"
    /\ LET i   == idx[p]
           v   == snap[p][i].variant_id
           cur == IF v \in DOMAIN tx_inv[p] THEN tx_inv[p][v] ELSE inventory[v]
           new == ApplyReserve(cur, snap[p][i].quantity)
       IN  IF ~CheckInventory(new)
           THEN Abort(p, "integrity")
           ELSE /\ tx_inv' = [tx_inv EXCEPT ![p] =
                                [w \in DOMAIN @ \cup {v} |-> IF w = v THEN new ELSE @[w]]]
                /\ idx' = [idx EXCEPT ![p] = IF i = Len(snap[p]) THEN 1 ELSE i + 1]
                /\ pc' = [pc EXCEPT ![p] = IF i = Len(snap[p]) THEN "insert" ELSE "reserve"]
                /\ UNCHANGED <<inventory, price_cents, cart_items, next_item_id,
                               orders, op, uid, snap, locked, tx_order, arg,
                               outcome, inv0, carts>>

\* 4. and 5. insert the order and its line items
CheckoutInsert(p) ==
    /\ pc[p] = "insert"
    /\ LET o == [id          |-> 1,
                 req         |-> p,
                 user_id     |-> uid[p],
                 status      |-> "created",
                 total_cents |-> TotalCents(snap[p]),
                 items       |-> [i \in 1 .. Len(snap[p]) |-> OrderLine(snap[p][i])]]
       IN  IF ~CheckOrder(o)
           THEN Abort(p, "integrity")
           ELSE /\ tx_order' = [tx_order EXCEPT ![p] = o]
                /\ pc' = [pc EXCEPT ![p] = "clear"]
                /\ UNCHANGED <<inventory, price_cents, cart_items, next_item_id,
                               orders, op, uid, snap, idx, locked, tx_inv, arg,
                               outcome, inv0, carts>>

\* 6. clear the cart (the DELETE sees the cart rows committed now) and commit
CheckoutClearCommit(p) ==
    /\ pc[p] = "clear"
    /\ cart_items' = ClearCart(cart_items, uid[p])
    /\ inventory' = Committed(inventory, tx_inv[p])
    /\ orders' = Append(orders, [tx_order[p] EXCEPT !.id = Len(orders) + 1])
    /\ pc' = [pc EXCEPT ![p] = "done"]
    /\ outcome' = [outcome EXCEPT ![p] = "created"]
    /\ locked' = [locked EXCEPT ![p] = {}]
    /\ tx_inv' = [tx_inv EXCEPT ![p] = NoWrites]
    /\ tx_order' = [tx_order EXCEPT ![p] = NoOrder]
    /\ UNCHANGED <<price_cents, next_item_id, op, uid, snap, idx, arg, inv0, carts>>

\* a statement of the transaction fails in the database (connection lost,
\* lock timeout): SQLAlchemyError, 500 ("dberror")
CheckoutDbError(p) ==
    /\ pc[p] \in {"locking", "reserve", "insert", "clear"}
    /\ Abort(p, "dberror")

Checkout(p) ==
    \/ \E u \in Users : CheckoutSelect(p, u)
    \/ CheckoutLock(p)
    \/ CheckoutValidate(p)
    \/ CheckoutReserve(p)
    \/ CheckoutInsert(p)
    \/ CheckoutClearCommit(p)
    \/ CheckoutDbError(p)

\* ------------------------------------------------------- cart routes
\* a cart request ends: commit (or abort) and respond
CartDone(p, result) ==
    /\ pc' = [pc EXCEPT ![p] = "done"]
    /\ outcome' = [outcome EXCEPT ![p] = result]

\* add_cart_item, steps 1 to 3: read the variant's stock and the existing
\* line, reject a total above the cap or above net available stock
\* the cart rows of user u
CartRows(rows, u) == {c \in rows : c.user_id = u}

\* INSERT INTO carts ... ON CONFLICT (user_id) waits while another
\* transaction holds an uncommitted row of the same user
CartInsertBlocked(rows, u, p) == \E c \in CartRows(rows, u) : c.tx \notin {0, p}

\* an insert without the ON CONFLICT clause
InsertCartAlways(rows, u, p) == rows \cup {[user_id |-> u, tx |-> p]}

\* INSERT INTO carts ... ON CONFLICT (user_id) DO NOTHING by transaction p
InsertCart(rows, u, p) ==
    IF CartRows(rows, u) # {} THEN rows ELSE rows \cup {[user_id |-> u, tx |-> p]}

\* commit and rollback of the cart row transaction p inserted
CommitCart(rows, p) == {IF c.tx = p THEN [c EXCEPT !.tx = 0] ELSE c : c \in rows}

RollbackCart(rows, p) == {c \in rows : c.tx # p}

AddCartItemCheck(p, u, v, q) ==
    /\ Free(p)
    /\ ~CartInsertBlocked(carts, u, p)
    /\ op' = [op EXCEPT ![p] = "add"]
    /\ uid' = [uid EXCEPT ![p] = u]
    /\ arg' = [arg EXCEPT ![p] = [variant_id |-> v, quantity |-> q]]
    /\ LET net_available == inventory[v].available - inventory[v].reserved
           existing  == {ci \in CartOf(cart_items, u) : ci.variant_id = v}
           new_total == q + (IF existing = {} THEN 0
                             ELSE (CHOOSE ci \in existing : TRUE).quantity)
       IN  IF new_total > MaxLineQty \/ new_total > net_available
           THEN /\ CartDone(p, "rejected")
                /\ carts' = RollbackCart(InsertCart(carts, u, p), p)
           ELSE /\ pc' = [pc EXCEPT ![p] = "add_upsert"]
                /\ outcome' = outcome
                /\ carts' = InsertCart(carts, u, p)
    /\ UNCHANGED <<inventory, price_cents, cart_items, next_item_id, orders,
                   snap, idx, locked, tx_inv, tx_order, inv0>>

\* ON CONFLICT ... DO UPDATE SET quantity = EXCLUDED.quantity
UpsertReplace(items, id, u, v, q) ==
    LET existing == {ci \in items : ci.user_id = u /\ ci.variant_id = v}
    IN  IF existing = {}
        THEN items \cup {[id |-> id, user_id |-> u, variant_id |-> v, quantity |-> q]}
        ELSE {IF ci \in existing THEN [ci EXCEPT !.quantity = q] ELSE ci : ci \in items}

\* INSERT INTO cart_items without the conflict clause
UpsertInsertOnly(items, id, u, v, q) ==
    items \cup {[id |-> id, user_id |-> u, variant_id |-> v, quantity |-> q]}

\* INSERT INTO cart_items ... ON CONFLICT (cart_id, variant_id) DO UPDATE
Upsert(items, id, u, v, q) ==
    LET existing == {ci \in items : ci.user_id = u /\ ci.variant_id = v}
    IN  IF existing = {}
        THEN items \cup {[id |-> id, user_id |-> u, variant_id |-> v, quantity |-> q]}
        ELSE {IF ci \in existing THEN [ci EXCEPT !.quantity = @ + q] ELSE ci : ci \in items}

\* add_cart_item, step 4: insert or increment, commit
AddCartItemUpsert(p) ==
    /\ pc[p] = "add_upsert"
    /\ cart_items' = Upsert(cart_items, next_item_id, uid[p], arg[p].variant_id,
                            arg[p].quantity)
    /\ next_item_id' = IF Cardinality(cart_items') > Cardinality(cart_items)
                       THEN next_item_id + 1 ELSE next_item_id
    /\ carts' = CommitCart(carts, p)
    /\ CartDone(p, "ok")
    /\ UNCHANGED <<inventory, price_cents, orders, op, uid, snap, idx, locked,
                   tx_inv, tx_order, arg, inv0>>

\* the line with the id, of whatever cart
AnyLine(items, u, id) == {ci \in items : ci.id = id}

\* JOIN carts c ... WHERE ci.id = :item_id AND c.user_id = :uid
OwnedLine(items, u, id) == {ci \in CartOf(items, u) : ci.id = id}

\* the test against the stock without the reservations
ExceedsStockGross(quantity, row) == quantity > row.available

\* net_available = available - reserved; if quantity > net_available
ExceedsStock(quantity, row) == quantity > row.available - row.reserved

\* CHECK (quantity > 0) of cart_items
CheckCartItem(quantity) == quantity > 0

\* no quantity makes the update delete the line
DeletesLineNever(q) == FALSE

\* if quantity == 0: the line is deleted
DeletesLine(q) == q = 0

\* DELETE of every line of the cart the line belongs to
RemoveLineAndCart(items, id) ==
    {ci \in items : \A cj \in items : cj.id = id => cj.user_id # ci.user_id}

\* DELETE FROM cart_items WHERE id = :item_id
RemoveLine(items, id) == {ci \in items : ci.id # id}

\* update_cart_item: ownership check, quantity 0 removes the line, another
\* quantity is checked against net available stock and stored
UpdateCartItem(p, u, id, q) ==
    /\ Free(p)
    /\ op' = [op EXCEPT ![p] = "update"]
    /\ uid' = [uid EXCEPT ![p] = u]
    /\ arg' = [arg EXCEPT ![p] = [item_id |-> id, quantity |-> q]]
    /\ LET item == OwnedLine(cart_items, u, id)
       IN  IF item = {}
           THEN /\ CartDone(p, "notfound")
                /\ cart_items' = cart_items
           ELSE IF DeletesLine(q)
           THEN /\ CartDone(p, "ok")
                /\ cart_items' = RemoveLine(cart_items, id)
           ELSE LET v == (CHOOSE ci \in item : TRUE).variant_id
                IN  IF ExceedsStock(q, inventory[v])
                    THEN /\ CartDone(p, "rejected")
                         /\ cart_items' = cart_items
                    ELSE IF ~CheckCartItem(q)
                    THEN /\ CartDone(p, "error")
                         /\ cart_items' = cart_items
                    ELSE /\ CartDone(p, "ok")
                         /\ cart_items' = {IF ci.id = id THEN [ci EXCEPT !.quantity = q]
                                           ELSE ci : ci \in cart_items}
    /\ UNCHANGED <<inventory, price_cents, next_item_id, orders, snap, idx,
                   locked, tx_inv, tx_order, inv0, carts>>

\* delete_cart_item: DELETE ... USING carts WHERE user and id match
DeleteCartItem(p, u, id) ==
    /\ Free(p)
    /\ op' = [op EXCEPT ![p] = "delete"]
    /\ uid' = [uid EXCEPT ![p] = u]
    /\ arg' = [arg EXCEPT ![p] = [item_id |-> id]]
    /\ LET item == OwnedLine(cart_items, u, id)
       IN  /\ cart_items' = cart_items \ item
           /\ CartDone(p, IF item = {} THEN "notfound" ELSE "ok")
    /\ UNCHANGED <<inventory, price_cents, next_item_id, orders, snap, idx,
                   locked, tx_inv, tx_order, inv0, carts>>

\* the line ids a request names: those of the lines there are, of the
\* caller's cart or of another
ItemIdChoices == {ci.id : ci \in cart_items}

CartRoutes(p) ==
    \/ \E u \in Users, v \in Variants, q \in AddQtyChoices : AddCartItemCheck(p, u, v, q)
    \/ AddCartItemUpsert(p)
    \/ \E u \in Users, id \in ItemIdChoices, q \in UpdateQtyChoices :
          UpdateCartItem(p, u, id, q)
    \/ \E u \in Users, id \in ItemIdChoices : DeleteCartItem(p, u, id)

\* requests that name a line id no line has
StaleIdRequests(p) ==
    \/ \E u \in Users, q \in UpdateQtyChoices : UpdateCartItem(p, u, next_item_id, q)
    \/ \E u \in Users : DeleteCartItem(p, u, next_item_id)

NextRoutes == \E p \in Procs : CartRoutes(p) \/ StaleIdRequests(p)

\* ------------------------------------- ProductRepository inventory calls
\* each call is one statement committed on its own connection; its UPDATE
\* waits while a checkout transaction holds the row lock, and a CHECK
\* violation raises DatabaseError and changes nothing
RepoCall(p, name, a, row, ret) ==
    /\ Free(p)
    /\ LockFree(a.variant_id, p)
    /\ op' = [op EXCEPT ![p] = name]
    /\ pc' = [pc EXCEPT ![p] = "done"]
    /\ arg' = [arg EXCEPT ![p] = a]
    /\ IF CheckInventory(row)
       THEN /\ inventory' = [inventory EXCEPT ![a.variant_id] = row]
            /\ outcome' = [outcome EXCEPT ![p] = ret]
       ELSE /\ inventory' = inventory
            /\ outcome' = [outcome EXCEPT ![p] = "error"]
    /\ UNCHANGED <<price_cents, cart_items, next_item_id, orders, uid, snap,
                   idx, locked, tx_inv, tx_order, inv0, carts>>

\* the WHERE clause tests the stock and ignores what is already reserved
ReserveMatchesGross(row, quantity) == row.available >= quantity

\* WHERE ... AND (available - reserved) >= :quantity
ReserveMatches(row, quantity) == (row.available - row.reserved) >= quantity

\* SET reserved = reserved + :quantity, on the row the WHERE clause matches
ReserveRow(row, quantity) ==
    IF ReserveMatches(row, quantity)
    THEN [row EXCEPT !.reserved = @ + quantity]
    ELSE row

\* SET reserved = 0
ReleaseRowAll(row, quantity) == [row EXCEPT !.reserved = 0]

\* SET reserved = GREATEST(0, reserved - :quantity)
ReleaseRow(row, quantity) ==
    [row EXCEPT !.reserved = IF @ - quantity > 0 THEN @ - quantity ELSE 0]

reserve_inventory(p, v, quantity) ==
    RepoCall(p, "reserve_inventory", [variant_id |-> v, quantity |-> quantity],
             ReserveRow(inventory[v], quantity),
             IF ReserveMatches(inventory[v], quantity) THEN "true" ELSE "false")

release_inventory_reservation(p, v, quantity) ==
    RepoCall(p, "release_inventory_reservation",
             [variant_id |-> v, quantity |-> quantity],
             ReleaseRow(inventory[v], quantity), "true")

\* negative arguments raise ValidationError before the upsert runs
update_inventory(p, v, available, reserved) ==
    IF available < 0 \/ reserved < 0
    THEN RepoCall(p, "update_inventory", [variant_id |-> v], inventory[v], "invalid")
    ELSE RepoCall(p, "update_inventory", [variant_id |-> v],
                  [available |-> available, reserved |-> reserved], "true")

\* the statement of a repository call fails in the database (connection
\* lost, unknown column): DatabaseError, nothing is written
RepoDbError(p, name, a) ==
    /\ Free(p)
    /\ op' = [op EXCEPT ![p] = name]
    /\ pc' = [pc EXCEPT ![p] = "done"]
    /\ arg' = [arg EXCEPT ![p] = a]
    /\ outcome' = [outcome EXCEPT ![p] = "error"]
    /\ UNCHANGED <<inventory, price_cents, cart_items, next_item_id, orders,
                   uid, snap, idx, locked, tx_inv, tx_order, inv0, carts>>

RepoCallNames == {"reserve_inventory", "release_inventory_reservation", "update_inventory"}

Repo(p) ==
    \/ \E v \in Variants, q \in RepoQtyChoices, name \in RepoCallNames :
          RepoDbError(p, name, [variant_id |-> v, quantity |-> q])
    \/ \E v \in Variants, q \in RepoQtyChoices : reserve_inventory(p, v, q)
    \/ \E v \in Variants, q \in RepoQtyChoices : release_inventory_reservation(p, v, q)
    \/ \E v \in Variants, a \in RepoStockChoices, r \in RepoQtyChoices :
          update_inventory(p, v, a, r)

\* ---------------------------------------------------------------------
\* reserve_inventory statement by statement: the UPDATE reads the row of
\* its snapshot, waits for the row lock, tests the WHERE clause again on
\* the committed row, writes, and execute_command commits
\* ---------------------------------------------------------------------

ReserveStockChoices == {3, 4}
ReserveReservedChoices == {0, 1}
ReserveQtyChoices == {-1, 2, 3}

InitReserve ==
    /\ \E a \in ReserveStockChoices, r \in ReserveReservedChoices :
          inventory = [v \in Variants |-> [available |-> a, reserved |-> r]]
    /\ price_cents = [v \in Variants |-> IF v = 1 THEN 250 ELSE 120]
    /\ cart_items = {}
    /\ next_item_id = 1
    /\ orders = <<>>
    /\ pc = [p \in Procs |-> "idle"]
    /\ op = [p \in Procs |-> "none"]
    /\ uid = [p \in Procs |-> 0]
    /\ snap = [p \in Procs |-> <<>>]
    /\ idx = [p \in Procs |-> 0]
    /\ locked = [p \in Procs |-> {}]
    /\ tx_inv = [p \in Procs |-> NoWrites]
    /\ tx_order = [p \in Procs |-> NoOrder]
    /\ arg = [p \in Procs |-> NoArg]
    /\ outcome = [p \in Procs |-> "none"]
    /\ inv0 = inventory
    /\ carts = {[user_id |-> u, tx |-> 0] : u \in Users}

\* the statement starts and scans the row of its snapshot; a row that
\* fails the WHERE clause there is skipped: no row affected, False
ReserveScan(p, v, quantity) ==
    /\ Free(p)
    /\ op' = [op EXCEPT ![p] = "reserve_inventory"]
    /\ arg' = [arg EXCEPT ![p] = [variant_id |-> v, quantity |-> quantity]]
    /\ snap' = [snap EXCEPT ![p] = <<inventory[v]>>]
    /\ IF ReserveMatches(inventory[v], quantity)
       THEN /\ pc' = [pc EXCEPT ![p] = "reserve_lock"]
            /\ outcome' = outcome
       ELSE /\ pc' = [pc EXCEPT ![p] = "done"]
            /\ outcome' = [outcome EXCEPT ![p] = "false"]
    /\ UNCHANGED <<inventory, price_cents, cart_items, next_item_id, orders,
                   uid, idx, locked, tx_inv, tx_order, inv0, carts>>

\* the row lock is granted and the WHERE clause decides on the row the
\* statement read at its start
ReserveRecheckSnapshot(latest, scanned, quantity) == ReserveMatches(scanned, quantity)

\* the row lock is granted: the WHERE clause is tested on the committed row
ReserveRecheck(latest, scanned, quantity) == ReserveMatches(latest, quantity)

\* the statement waits for the row lock, then updates the committed row
ReserveLock(p) ==
    /\ pc[p] = "reserve_lock"
    /\ LockFree(arg[p].variant_id, p)
    /\ LET v      == arg[p].variant_id
           latest == inventory[v]
           new    == [latest EXCEPT !.reserved = @ + arg[p].quantity]
       IN  IF ~ReserveRecheck(latest, snap[p][1], arg[p].quantity)
           THEN /\ pc' = [pc EXCEPT ![p] = "done"]
                /\ outcome' = [outcome EXCEPT ![p] = "false"]
                /\ UNCHANGED <<locked, tx_inv>>
           ELSE IF ~CheckInventory(new)
           THEN /\ pc' = [pc EXCEPT ![p] = "done"]
                /\ outcome' = [outcome EXCEPT ![p] = "error"]
                /\ UNCHANGED <<locked, tx_inv>>
           ELSE /\ pc' = [pc EXCEPT ![p] = "reserve_commit"]
                /\ locked' = [locked EXCEPT ![p] = {v}]
                /\ tx_inv' = [tx_inv EXCEPT ![p] = [w \in {v} |-> new]]
                /\ outcome' = outcome
    /\ UNCHANGED <<inventory, price_cents, cart_items, next_item_id, orders,
                   op, uid, snap, idx, tx_order, arg, inv0, carts>>

\* conn.commit(): the write becomes the committed row; one row affected
ReserveCommit(p) ==
    /\ pc[p] = "reserve_commit"
    /\ inventory' = [inventory EXCEPT ![arg[p].variant_id] = tx_inv[p][arg[p].variant_id]]
    /\ locked' = [locked EXCEPT ![p] = {}]
    /\ tx_inv' = [tx_inv EXCEPT ![p] = NoWrites]
    /\ pc' = [pc EXCEPT ![p] = "done"]
    /\ outcome' = [outcome EXCEPT ![p] = "true"]
    /\ UNCHANGED <<price_cents, cart_items, next_item_id, orders, op, uid,
                   snap, idx, tx_order, arg, inv0, carts>>

\* the commit fails (connection lost): DatabaseError, the write is rolled back
ReserveCommitError(p) ==
    /\ pc[p] = "reserve_commit"
    /\ locked' = [locked EXCEPT ![p] = {}]
    /\ tx_inv' = [tx_inv EXCEPT ![p] = NoWrites]
    /\ pc' = [pc EXCEPT ![p] = "done"]
    /\ outcome' = [outcome EXCEPT ![p] = "error"]
    /\ UNCHANGED <<inventory, price_cents, cart_items, next_item_id, orders,
                   op, uid, snap, idx, tx_order, arg, inv0, carts>>

ReserveStatement(p) ==
    \/ \E v \in Variants, q \in ReserveQtyChoices : ReserveScan(p, v, q)
    \/ ReserveLock(p)
    \/ ReserveCommit(p)
    \/ ReserveCommitError(p)

NextReserve == \E p \in Procs : ReserveStatement(p)

\* concurrent reserve_inventory calls and nothing else
SpecReserve == InitReserve /\ [][NextReserve]_vars

\* ---------------------------------------------------------------------
\* ProductService: inventory operations of the service layer
\* ---------------------------------------------------------------------

\* stock, reservations and quantities handed to the service
ServiceStockChoices == {0, 6, 10, 45, 120}
ServiceReservedChoices == {0, 15}
ServiceQtyChoices == {0, 6, 100}

MaxReservation == 99

\* inventory as update_inventory leaves it; the carts are empty
InitService ==
    /\ \E a \in ServiceStockChoices, r \in ServiceReservedChoices :
          inventory = [v \in Variants |-> [available |-> a, reserved |-> r]]
    /\ price_cents = [v \in Variants |-> IF v = 1 THEN 250 ELSE 120]
    /\ cart_items = {}
    /\ next_item_id = 1
    /\ orders = <<>>
    /\ pc = [p \in Procs |-> "idle"]
    /\ op = [p \in Procs |-> "none"]
    /\ uid = [p \in Procs |-> 0]
    /\ snap = [p \in Procs |-> <<>>]
    /\ idx = [p \in Procs |-> 0]
    /\ locked = [p \in Procs |-> {}]
    /\ tx_inv = [p \in Procs |-> NoWrites]
    /\ tx_order = [p \in Procs |-> NoOrder]
    /\ arg = [p \in Procs |-> NoArg]
    /\ outcome = [p \in Procs |-> "none"]
    /\ inv0 = inventory
    /\ carts = {[user_id |-> u, tx |-> 0] : u \in Users}

Max2(a, b) == IF a >= b THEN a ELSE b
Min2(a, b) == IF a <= b THEN a ELSE b

\* ProductVariant.available_quantity
available_quantity(variant) == Max2(0, variant.available - variant.reserved)

\* 5% of the stock, truncated, at least 1 and at most 5
get_minimum_stock_level(variant) ==
    Min2(Max2(1, (variant.available * 5) \div 100), 5)

effective_available(variant) ==
    Max2(0, available_quantity(variant) - get_minimum_stock_level(variant))

\* the test without the minimum stock level
is_available_net(variant, requested_quantity) ==
    variant.available - variant.reserved >= requested_quantity

is_available(variant, requested_quantity) ==
    effective_available(variant) >= requested_quantity

NoVariant == [available |-> 0, reserved |-> 0]

\* the value the service call of worker p ends with
ServiceDone(p, result) ==
    /\ pc' = [pc EXCEPT ![p] = "done"]
    /\ outcome' = [outcome EXCEPT ![p] = result]

\* get_variant_by_id on its own connection: the committed row, or a failure
ServiceRead(p, v, q, ok) ==
    arg' = [arg EXCEPT ![p] = [variant_id |-> v, quantity |-> q, read_ok |-> ok,
                               variant |-> IF ok THEN inventory[v] ELSE NoVariant]]

\* the result of check_variant_availability for what worker p has read:
\* NotFoundError and every other exception of the read give False
CheckResult(a) == a.read_ok /\ is_available(a.variant, a.quantity)

check_variant_availability(p, v, requested_quantity) ==
    /\ Free(p)
    /\ op' = [op EXCEPT ![p] = "check_variant_availability"]
    /\ IF requested_quantity <= 0
       THEN /\ ServiceRead(p, v, requested_quantity, FALSE)
            /\ ServiceDone(p, "ValidationError")
       ELSE \E ok \in BOOLEAN :
              /\ ServiceRead(p, v, requested_quantity, ok)
              /\ ServiceDone(p, IF CheckResult(arg'[p]) THEN "true" ELSE "false")
    /\ UNCHANGED <<inventory, price_cents, cart_items, next_item_id, orders,
                   uid, snap, idx, locked, tx_inv, tx_order, inv0, carts>>

\* validation and the availability check of ProductService.reserve_inventory
ServiceReserveCheck(p, v, quantity) ==
    /\ Free(p)
    /\ op' = [op EXCEPT ![p] = "ProductService.reserve_inventory"]
    /\ IF quantity <= 0 \/ quantity > MaxReservation
       THEN /\ ServiceRead(p, v, quantity, FALSE)
            /\ ServiceDone(p, "ValidationError")
       ELSE \E ok \in BOOLEAN :
              /\ ServiceRead(p, v, quantity, ok)
              /\ IF CheckResult(arg'[p])
                 THEN /\ pc' = [pc EXCEPT ![p] = "svc_reserve"]
                      /\ outcome' = outcome
                 ELSE ServiceDone(p, "BusinessLogicError:insufficient_inventory")
    /\ UNCHANGED <<inventory, price_cents, cart_items, next_item_id, orders,
                   uid, snap, idx, locked, tx_inv, tx_order, inv0, carts>>

\* the repository call of ProductService.reserve_inventory: a false result
\* raises ConflictError, which the enclosing handler turns, like every
\* exception of the repository, into BusinessLogicError
ServiceReserveUpdate(p) ==
    /\ pc[p] = "svc_reserve"
    /\ op[p] = "ProductService.reserve_inventory"
    /\ LET v == arg[p].variant_id
           q == arg[p].quantity
       IN  /\ LockFree(v, p)
           /\ \/ /\ ReserveMatches(inventory[v], q)
                 /\ CheckInventory(ReserveRow(inventory[v], q))
                 /\ inventory' = [inventory EXCEPT ![v] = ReserveRow(inventory[v], q)]
                 /\ ServiceDone(p, "true")
              \/ /\ ~ReserveMatches(inventory[v], q)
                 /\ inventory' = inventory
                 /\ ServiceDone(p, "BusinessLogicError")
              \/ /\ inventory' = inventory
                 /\ ServiceDone(p, "BusinessLogicError")
    /\ UNCHANGED <<price_cents, cart_items, next_item_id, orders, op, uid, snap,
                   idx, locked, tx_inv, tx_order, arg, inv0, carts>>

ServiceRelease(p, v, quantity) ==
    /\ Free(p)
    /\ LockFree(v, p)
    /\ op' = [op EXCEPT ![p] = "ProductService.release_inventory_reservation"]
    /\ ServiceRead(p, v, quantity, FALSE)
    /\ IF quantity <= 0
       THEN /\ inventory' = inventory
            /\ ServiceDone(p, "ValidationError")
       ELSE \/ /\ CheckInventory(ReleaseRow(inventory[v], quantity))
               /\ inventory' = [inventory EXCEPT ![v] = ReleaseRow(@, quantity)]
               /\ ServiceDone(p, "true")
            \/ /\ inventory' = inventory
               /\ ServiceDone(p, "BusinessLogicError")
    /\ UNCHANGED <<price_cents, cart_items, next_item_id, orders, uid, snap,
                   idx, locked, tx_inv, tx_order, inv0, carts>>

ProductService(p) ==
    \/ \E v \in Variants, q \in ServiceQtyChoices : check_variant_availability(p, v, q)
    \/ \E v \in Variants, q \in ServiceQtyChoices : ServiceReserveCheck(p, v, q)
    \/ ServiceReserveUpdate(p)
    \/ \E v \in Variants, q \in ServiceQtyChoices : ServiceRelease(p, v, q)

NextService == \E p \in Procs : ProductService(p)

\* concurrent calls of the product service on seeded inventory
SpecService == InitService /\ [][NextService]_vars

\* ---------------------------------------------------------------------
\* CartRepository.add_item_to_cart: select the line, then update or insert,
\* each statement in a transaction of its own
\* ---------------------------------------------------------------------

RepoAddQtyChoices == {0, 6}

NoLine == [id |-> 0, quantity |-> 0]

\* the quantity test and the SELECT of the existing line
RepoAddSelect(p, u, v, quantity) ==
    /\ Free(p)
    /\ op' = [op EXCEPT ![p] = "add_item_to_cart"]
    /\ uid' = [uid EXCEPT ![p] = u]
    /\ LET existing == {ci \in CartOf(cart_items, u) : ci.variant_id = v}
           existing_item == IF existing = {} THEN NoLine
                            ELSE LET ci == CHOOSE x \in existing : TRUE
                                 IN  [id |-> ci.id, quantity |-> ci.quantity]
       IN  /\ arg' = [arg EXCEPT ![p] = [variant_id |-> v, quantity |-> quantity,
                                         existing_item |-> existing_item]]
           /\ IF quantity <= 0
              THEN CartDone(p, "invalid")
              ELSE /\ pc' = [pc EXCEPT ![p] = "repo_add_write"]
                   /\ outcome' = outcome
    /\ UNCHANGED <<inventory, price_cents, cart_items, next_item_id, orders,
                   snap, idx, locked, tx_inv, tx_order, inv0, carts>>

\* UPDATE of the line found, to the quantity read plus the quantity added;
\* or INSERT of a new line, which the unique index on (cart_id, variant_id)
\* refuses when the cart has got a line for the variant in the meantime
RepoAddWrite(p) ==
    /\ pc[p] = "repo_add_write"
    /\ LET u == uid[p]
           v == arg[p].variant_id
           existing_item == arg[p].existing_item
           new_quantity == existing_item.quantity + arg[p].quantity
       IN  IF existing_item # NoLine
           THEN /\ cart_items' = {IF ci.id = existing_item.id
                                  THEN [ci EXCEPT !.quantity = new_quantity]
                                  ELSE ci : ci \in cart_items}
                /\ next_item_id' = next_item_id
                /\ CartDone(p, IF \E ci \in cart_items : ci.id = existing_item.id
                               THEN "ok" ELSE "notfound")
           ELSE IF \E ci \in CartOf(cart_items, u) : ci.variant_id = v
           THEN /\ UNCHANGED <<cart_items, next_item_id>>
                /\ CartDone(p, "error")
           ELSE /\ cart_items' = cart_items \cup
                                    {[id |-> next_item_id, user_id |-> u,
                                      variant_id |-> v, quantity |-> arg[p].quantity]}
                /\ next_item_id' = next_item_id + 1
                /\ CartDone(p, "ok")
    /\ UNCHANGED <<inventory, price_cents, orders, op, uid, snap, idx, locked,
                   tx_inv, tx_order, arg, inv0, carts>>

CartRepository(p) ==
    \/ \E u \in Users, v \in Variants, q \in RepoAddQtyChoices : RepoAddSelect(p, u, v, q)
    \/ RepoAddWrite(p)

NextCart == \E p \in Procs : Checkout(p) \/ CartRoutes(p) \/ CartRepository(p)

\* cart requests of the routes and of the repository, and checkouts
SpecCart == Init /\ [][NextCart]_vars

\* ---------------------------------------------------------------------
\* CartService: cart mutations of the service layer; every repository and
\* product-service call runs in a transaction of its own
\* ---------------------------------------------------------------------

\* <<available, reserved>> of every inventory row, and the carts of the users
SvcInventoryChoices == {<<10, 3>>, <<3, 0>>}
SvcCartChoices ==
    { <<CartOfTwo(2, 4), CartOfOne(3)>>,
      <<CartOfOne(5), CartOfOne(0)>> }
SvcUpdateQtyChoices == {0, 1, 6, 100}

max_quantity_per_item == 99

\* carts as the routes leave them, inventory as checkouts leave it
InitCartService ==
    /\ \E i \in SvcInventoryChoices :
          inventory = [v \in Variants |-> [available |-> i[1], reserved |-> i[2]]]
    /\ price_cents = [v \in Variants |-> IF v = 1 THEN 250 ELSE 120]
    /\ \E c \in SvcCartChoices :
          cart_items = {[id |-> (u - 1) * Cardinality(Variants) + v, user_id |-> u,
                         variant_id |-> v, quantity |-> c[u][v]] :
                        <<u, v>> \in {x \in Users \X Variants : c[x[1]][x[2]] > 0}}
    /\ next_item_id = Cardinality(Users) * Cardinality(Variants) + 1
    /\ orders = <<>>
    /\ pc = [p \in Procs |-> "idle"]
    /\ op = [p \in Procs |-> "none"]
    /\ uid = [p \in Procs |-> 0]
    /\ snap = [p \in Procs |-> <<>>]
    /\ idx = [p \in Procs |-> 0]
    /\ locked = [p \in Procs |-> {}]
    /\ tx_inv = [p \in Procs |-> NoWrites]
    /\ tx_order = [p \in Procs |-> NoOrder]
    /\ arg = [p \in Procs |-> NoArg]
    /\ outcome = [p \in Procs |-> "none"]
    /\ inv0 = inventory
    /\ carts = {[user_id |-> u, tx |-> 0] : u \in Users}

NoItem == [id |-> 0, variant_id |-> 0, quantity |-> 0]

\* Cart.get_item_by_id on the cart get_cart_by_user_id returns
get_item_by_id(items, u, id) ==
    LET item == {ci \in CartOf(items, u) : ci.id = id}
    IN  IF item = {} THEN NoItem
        ELSE LET ci == CHOOSE x \in item : TRUE
             IN  [id |-> ci.id, variant_id |-> ci.variant_id, quantity |-> ci.quantity]

RECURSIVE CartLines(_)
\* the lines of a cart, latest first
CartLines(S) ==
    IF S = {} THEN <<>>
    ELSE LET ci == CHOOSE x \in S : \A y \in S : y.id <= x.id
         IN  <<[id |-> ci.id, variant_id |-> ci.variant_id, quantity |-> ci.quantity]>>
                \o CartLines(S \ {ci})

\* ProductService.release_inventory_reservation(v, quantity), quantity > 0
ReleaseOf(inv, v, quantity) == [inv EXCEPT ![v] = ReleaseRow(@, quantity)]

\* remove_cart_item, and update_cart_item with quantity 0: the lookup of
\* the line in the caller's cart
SvcRemoveLookup(p, u, id) ==
    LET current_item == get_item_by_id(cart_items, u, id)
    IN  /\ arg' = [arg EXCEPT ![p] = [item_id |-> id, quantity |-> 0,
                                      current_item |-> current_item]]
        /\ IF current_item = NoItem
           THEN CartDone(p, "NotFoundError")
           ELSE /\ pc' = [pc EXCEPT ![p] = "svc_remove_delete"]
                /\ outcome' = outcome

\* update_cart_item up to the availability check
SvcUpdateRead(p, u, id, q) ==
    /\ Free(p)
    /\ op' = [op EXCEPT ![p] = "CartService.update_cart_item"]
    /\ uid' = [uid EXCEPT ![p] = u]
    /\ LET current_item == get_item_by_id(cart_items, u, id)
       IN  /\ arg' = [arg EXCEPT ![p] = [item_id |-> id, quantity |-> q,
                                         current_item |-> current_item]]
           /\ IF current_item = NoItem
              THEN CartDone(p, "NotFoundError")
              ELSE IF q = 0
              THEN /\ pc' = [pc EXCEPT ![p] = "svc_remove_read"]
                   /\ outcome' = outcome
              ELSE IF q > max_quantity_per_item
              THEN CartDone(p, "ValidationError")
              ELSE IF ~is_available(inventory[current_item.variant_id], q)
              THEN CartDone(p, "BusinessLogicError:insufficient_inventory")
              ELSE /\ pc' = [pc EXCEPT ![p] = "svc_update_write"]
                   /\ outcome' = outcome
    /\ UNCHANGED <<inventory, price_cents, cart_items, next_item_id, orders,
                   snap, idx, locked, tx_inv, tx_order, inv0, carts>>

\* update_cart_item_quantity: UPDATE of the caller's line; when no row
\* matches, NotFoundError, which the service wraps
SvcUpdateWrite(p) ==
    /\ pc[p] = "svc_update_write"
    /\ LET id == arg[p].item_id
           q == arg[p].quantity
           quantity_diff == q - arg[p].current_item.quantity
       IN  IF get_item_by_id(cart_items, uid[p], id) = NoItem
           THEN /\ cart_items' = cart_items
                /\ CartDone(p, "BusinessLogicError")
           ELSE /\ cart_items' = {IF ci.id = id THEN [ci EXCEPT !.quantity = q]
                                  ELSE ci : ci \in cart_items}
                /\ IF quantity_diff = 0
                   THEN CartDone(p, "ok")
                   ELSE /\ pc' = [pc EXCEPT ![p] = "svc_update_inv"]
                        /\ outcome' = outcome
    /\ UNCHANGED <<inventory, price_cents, next_item_id, orders, op, uid, snap,
                   idx, locked, tx_inv, tx_order, arg, inv0, carts>>

\* the reservation change after the update: reserve_inventory of the
\* difference, which raises when the stock does not cover it, or
\* release_inventory_reservation of the difference
SvcUpdateInventory(p) ==
    /\ pc[p] = "svc_update_inv"
    /\ LET v == arg[p].current_item.variant_id
           quantity_diff == arg[p].quantity - arg[p].current_item.quantity
       IN  /\ LockFree(v, p)
           /\ IF quantity_diff > 0
              THEN IF is_available(inventory[v], quantity_diff)
                      /\ CheckInventory(ReserveRow(inventory[v], quantity_diff))
                   THEN /\ inventory' = [inventory EXCEPT
                                           ![v] = ReserveRow(@, quantity_diff)]
                        /\ CartDone(p, "ok")
                   ELSE /\ inventory' = inventory
                        /\ CartDone(p, "BusinessLogicError")
              ELSE /\ inventory' = ReleaseOf(inventory, v, -quantity_diff)
                   /\ CartDone(p, "ok")
    /\ UNCHANGED <<price_cents, cart_items, next_item_id, orders, op, uid, snap,
                   idx, locked, tx_inv, tx_order, arg, inv0, carts>>

SvcRemoveRead(p, u, id) ==
    /\ Free(p)
    /\ op' = [op EXCEPT ![p] = "CartService.remove_cart_item"]
    /\ uid' = [uid EXCEPT ![p] = u]
    /\ SvcRemoveLookup(p, u, id)
    /\ UNCHANGED <<inventory, price_cents, cart_items, next_item_id, orders,
                   snap, idx, locked, tx_inv, tx_order, inv0, carts>>

\* update_cart_item with quantity 0 returns remove_cart_item(...)
SvcUpdateRemove(p) ==
    /\ pc[p] = "svc_remove_read"
    /\ SvcRemoveLookup(p, uid[p], arg[p].item_id)
    /\ UNCHANGED <<inventory, price_cents, cart_items, next_item_id, orders,
                   op, uid, snap, idx, locked, tx_inv, tx_order, inv0, carts>>

\* CartRepository.remove_cart_item: DELETE of the caller's line
SvcRemoveDelete(p) ==
    /\ pc[p] = "svc_remove_delete"
    /\ IF get_item_by_id(cart_items, uid[p], arg[p].item_id) = NoItem
       THEN /\ cart_items' = cart_items
            /\ CartDone(p, "NotFoundError")
       ELSE /\ cart_items' = RemoveLine(cart_items, arg[p].item_id)
            /\ pc' = [pc EXCEPT ![p] = "svc_remove_release"]
            /\ outcome' = outcome
    /\ UNCHANGED <<inventory, price_cents, next_item_id, orders, op, uid, snap,
                   idx, locked, tx_inv, tx_order, arg, inv0, carts>>

\* release of the quantity the removed line had when the service read it
SvcRemoveRelease(p) ==
    /\ pc[p] = "svc_remove_release"
    /\ LockFree(arg[p].current_item.variant_id, p)
    /\ inventory' = ReleaseOf(inventory, arg[p].current_item.variant_id,
                              arg[p].current_item.quantity)
    /\ CartDone(p, "ok")
    /\ UNCHANGED <<price_cents, cart_items, next_item_id, orders, op, uid, snap,
                   idx, locked, tx_inv, tx_order, arg, inv0, carts>>

\* clear_cart: the read of the cart
SvcClearRead(p, u) ==
    /\ Free(p)
    /\ op' = [op EXCEPT ![p] = "CartService.clear_cart"]
    /\ uid' = [uid EXCEPT ![p] = u]
    /\ snap' = [snap EXCEPT ![p] = CartLines(CartOf(cart_items, u))]
    /\ idx' = [idx EXCEPT ![p] = 1]
    /\ pc' = [pc EXCEPT ![p] = IF CartOf(cart_items, u) = {} THEN "svc_clear_delete"
                               ELSE "svc_clear_release"]
    /\ UNCHANGED <<inventory, price_cents, cart_items, next_item_id, orders,
                   locked, tx_inv, tx_order, arg, outcome, inv0, carts>>

\* clear_cart: the release for one line of the cart read
SvcClearRelease(p) ==
    /\ pc[p] = "svc_clear_release"
    /\ LET item == snap[p][idx[p]]
       IN  /\ LockFree(item.variant_id, p)
           /\ inventory' = ReleaseOf(inventory, item.variant_id, item.quantity)
    /\ idx' = [idx EXCEPT ![p] = @ + 1]
    /\ pc' = [pc EXCEPT ![p] = IF idx[p] = Len(snap[p]) THEN "svc_clear_delete"
                               ELSE "svc_clear_release"]
    /\ UNCHANGED <<price_cents, cart_items, next_item_id, orders, op, uid, snap,
                   locked, tx_inv, tx_order, arg, outcome, inv0, carts>>

\* CartRepository.clear_cart returns affected_rows > 0
Cleared(items, u) == IF CartOf(items, u) # {} THEN "true" ELSE "false"

\* clear_cart: the DELETE of the lines the cart has by now
SvcClearDelete(p) ==
    /\ pc[p] = "svc_clear_delete"
    /\ cart_items' = ClearCart(cart_items, uid[p])
    /\ CartDone(p, Cleared(cart_items, uid[p]))
    /\ UNCHANGED <<inventory, price_cents, next_item_id, orders, op, uid, snap,
                   idx, locked, tx_inv, tx_order, arg, inv0, carts>>

\* quantities of CartService.add_item_to_cart requests
SvcAddQtyChoices == {1, 4}

max_items_per_cart == 50

\* add_item_to_cart: the variant exists; check_variant_availability of the
\* requested quantity
SvcAddCheck(p, u, v, q) ==
    /\ Free(p)
    /\ op' = [op EXCEPT ![p] = "CartService.add_item_to_cart"]
    /\ uid' = [uid EXCEPT ![p] = u]
    /\ arg' = [arg EXCEPT ![p] = [variant_id |-> v, quantity |-> q,
                                  existing_item |-> NoLine]]
    /\ IF ~is_available(inventory[v], q)
       THEN CartDone(p, "BusinessLogicError:insufficient_inventory")
       ELSE /\ pc' = [pc EXCEPT ![p] = "svc_add_read"]
            /\ outcome' = outcome
    /\ UNCHANGED <<inventory, price_cents, cart_items, next_item_id, orders,
                   snap, idx, locked, tx_inv, tx_order, inv0, carts>>

\* add_item_to_cart: the read of the cart and the two cart limits
SvcAddRead(p) ==
    /\ pc[p] = "svc_add_read"
    /\ LET items == CartOf(cart_items, uid[p])
           existing == {ci \in items : ci.variant_id = arg[p].variant_id}
           total_quantity == arg[p].quantity
                             + (IF existing = {} THEN 0
                                ELSE (CHOOSE ci \in existing : TRUE).quantity)
       IN  IF Cardinality(items) >= max_items_per_cart /\ existing = {}
           THEN CartDone(p, "BusinessLogicError:max_cart_items_exceeded")
           ELSE IF total_quantity > max_quantity_per_item
           THEN CartDone(p, "BusinessLogicError:max_item_quantity_exceeded")
           ELSE /\ pc' = [pc EXCEPT ![p] = "svc_add_select"]
                /\ outcome' = outcome
    /\ UNCHANGED <<inventory, price_cents, cart_items, next_item_id, orders,
                   op, uid, snap, idx, locked, tx_inv, tx_order, arg, inv0, carts>>

\* CartRepository.add_item_to_cart called by the service: its SELECT of the
\* line of the variant
SvcAddSelect(p) ==
    /\ pc[p] = "svc_add_select"
    /\ LET existing == {ci \in CartOf(cart_items, uid[p]) :
                          ci.variant_id = arg[p].variant_id}
           existing_item == IF existing = {} THEN NoLine
                            ELSE LET ci == CHOOSE x \in existing : TRUE
                                 IN  [id |-> ci.id, quantity |-> ci.quantity]
       IN  arg' = [arg EXCEPT ![p].existing_item = existing_item]
    /\ pc' = [pc EXCEPT ![p] = "svc_add_write"]
    /\ UNCHANGED <<inventory, price_cents, cart_items, next_item_id, orders,
                   op, uid, snap, idx, locked, tx_inv, tx_order, outcome, inv0,
                   carts>>

\* its UPDATE of the line found or INSERT of a new line; the service wraps
\* every failure in BusinessLogicError and reserves nothing
SvcAddWrite(p) ==
    /\ pc[p] = "svc_add_write"
    /\ LET u == uid[p]
           v == arg[p].variant_id
           existing_item == arg[p].existing_item
           new_quantity == existing_item.quantity + arg[p].quantity
       IN  IF existing_item # NoLine
           THEN /\ cart_items' = {IF ci.id = existing_item.id
                                  THEN [ci EXCEPT !.quantity = new_quantity]
                                  ELSE ci : ci \in cart_items}
                /\ next_item_id' = next_item_id
                /\ CartDone(p, IF \E ci \in cart_items : ci.id = existing_item.id
                               THEN "ok" ELSE "BusinessLogicError")
           ELSE IF \E ci \in CartOf(cart_items, u) : ci.variant_id = v
           THEN /\ UNCHANGED <<cart_items, next_item_id>>
                /\ CartDone(p, "BusinessLogicError")
           ELSE /\ cart_items' = cart_items \cup
                                    {[id |-> next_item_id, user_id |-> u,
                                      variant_id |-> v, quantity |-> arg[p].quantity]}
                /\ next_item_id' = next_item_id + 1
                /\ CartDone(p, "ok")
    /\ UNCHANGED <<inventory, price_cents, orders, op, uid, snap, idx, locked,
                   tx_inv, tx_order, arg, inv0, carts>>

CartService(p) ==
    \/ \E u \in Users, id \in ItemIdChoices, q \in SvcUpdateQtyChoices :
          SvcUpdateRead(p, u, id, q)
    \/ SvcUpdateWrite(p)
    \/ SvcUpdateInventory(p)
    \/ SvcUpdateRemove(p)
    \/ \E u \in Users, id \in ItemIdChoices : SvcRemoveRead(p, u, id)
    \/ SvcRemoveDelete(p)
    \/ SvcRemoveRelease(p)
    \/ \E u \in Users : SvcClearRead(p, u)
    \/ SvcClearRelease(p)
    \/ SvcClearDelete(p)
    \/ \E u \in Users, v \in Variants, q \in SvcAddQtyChoices : SvcAddCheck(p, u, v, q)
    \/ SvcAddRead(p)
    \/ SvcAddSelect(p)
    \/ SvcAddWrite(p)

NextCartService == \E p \in Procs : CartService(p)

\* concurrent cart mutations of the service layer
SpecCartService == InitCartService /\ [][NextCartService]_vars

\* cart requests of the routes, line ids that do not exist included
SpecRoutes == Init /\ [][NextRoutes]_vars

\* prices an update of product_variants.price_cents can set
PriceChoices == {120, 300}

\* a committed UPDATE of one variant's price_cents (ck_variant_price keeps
\* it non-negative); no request of the service is involved
PriceChange(v, c) ==
    /\ c >= 0
    /\ price_cents[v] # c
    /\ price_cents' = [price_cents EXCEPT ![v] = c]
    /\ UNCHANGED <<inventory, cart_items, next_item_id, orders, pc, op, uid,
                   snap, idx, locked, tx_inv, tx_order, arg, outcome, inv0, carts>>

NextPrices ==
    \/ \E p \in Procs : Checkout(p)
    \/ \E v \in Variants, c \in PriceChoices : PriceChange(v, c)

\* checkouts while the prices of the variants change
SpecPrices == Init /\ [][NextPrices]_vars

Next == \E p \in Procs : Checkout(p) \/ CartRoutes(p)

Spec == Init /\ [][Next]_vars

\* the steps of a started checkout that do not fail
CheckoutProgress(p) ==
    \/ CheckoutLock(p)
    \/ CheckoutValidate(p)
    \/ CheckoutReserve(p)
    \/ CheckoutInsert(p)
    \/ CheckoutClearCommit(p)

NextCheckout == \E p \in Procs : Checkout(p)

\* the request body fails CheckoutSchema: abort(400) before a connection is
\* opened
CheckoutInvalidBody(p, u) ==
    /\ Free(p)
    /\ op' = [op EXCEPT ![p] = "checkout"]
    /\ uid' = [uid EXCEPT ![p] = u]
    /\ pc' = [pc EXCEPT ![p] = "done"]
    /\ outcome' = [outcome EXCEPT ![p] = "invalid"]
    /\ UNCHANGED <<inventory, price_cents, cart_items, next_item_id, orders,
                   snap, idx, locked, tx_inv, tx_order, arg, inv0, carts>>

\* the response that differs by its HTTP status only
CheckoutResponseByStatus(result) ==
    [status |-> CASE result = "created" -> 201
                  [] result \in {"invalid", "empty", "insufficient"} -> 400
                  [] OTHER -> 500,
     error  |-> "error"]

\* the HTTP response of POST /checkout for each way the handler ends: the
\* status and the description given to abort()
CheckoutResponse(result) ==
    CASE result = "created"      -> [status |-> 201, error |-> "none"]
      [] result = "invalid"      -> [status |-> 400, error |-> "schema messages"]
      [] result = "empty"        -> [status |-> 400, error |-> "Cart is empty."]
      [] result = "insufficient" -> [status |-> 400,
                                     error  |-> "Insufficient stock for variant"]
      [] OTHER                   -> [status |-> 500,
                                     error  |-> "Database error during checkout."]

\* the response of the cart item routes for a line that is not the caller's
ItemNotFoundResponse == [status |-> 404, error |-> "Cart item not found."]

NextCheckoutErrors ==
    \E p \in Procs :
        \/ Checkout(p)
        \/ \E u \in Users : CheckoutInvalidBody(p, u)
        \/ StaleIdRequests(p)

\* checkouts with every error response, next to cart requests answered 404
SpecCheckoutErrors == Init /\ [][NextCheckoutErrors]_vars

\* GET /cart/me: the cart row is created on first touch
GetMyCartUpsert(p, u) ==
    /\ Free(p)
    /\ ~CartInsertBlocked(carts, u, p)
    /\ op' = [op EXCEPT ![p] = "get_my_cart"]
    /\ uid' = [uid EXCEPT ![p] = u]
    /\ carts' = InsertCart(carts, u, p)
    /\ pc' = [pc EXCEPT ![p] = "cart_select"]
    /\ UNCHANGED <<inventory, price_cents, cart_items, next_item_id, orders,
                   snap, idx, locked, tx_inv, tx_order, arg, outcome, inv0>>

\* the SELECT of the cart with its lines, then the end of the connection
\* block, which commits
GetMyCartSelect(p) ==
    /\ pc[p] = "cart_select"
    /\ IF CartRows(carts, uid[p]) = {}
       THEN /\ carts' = RollbackCart(carts, p)
            /\ CartDone(p, "error")
       ELSE /\ carts' = CommitCart(carts, p)
            /\ CartDone(p, "ok")
    /\ UNCHANGED <<inventory, price_cents, cart_items, next_item_id, orders,
                   op, uid, snap, idx, locked, tx_inv, tx_order, arg, inv0>>

\* initial carts of the first-touch runs
FirstTouchChoices ==
    { <<CartOfOne(0), CartOfOne(3)>>,
      <<CartOfOne(0), CartOfOne(0)>> }

\* a database in which a user without cart lines has no cart row yet
InitFirstTouch ==
    /\ inventory = [v \in Variants |-> [available |-> 10, reserved |-> 0]]
    /\ price_cents = [v \in Variants |-> IF v = 1 THEN 250 ELSE 120]
    /\ \E c \in FirstTouchChoices :
          cart_items = {[id |-> (u - 1) * Cardinality(Variants) + v, user_id |-> u,
                         variant_id |-> v, quantity |-> c[u][v]] :
                        <<u, v>> \in {x \in Users \X Variants : c[x[1]][x[2]] > 0}}
    /\ carts = {[user_id |-> u, tx |-> 0] : u \in {ci.user_id : ci \in cart_items}}
    /\ next_item_id = Cardinality(Users) * Cardinality(Variants) + 1
    /\ orders = <<>>
    /\ pc = [p \in Procs |-> "idle"]
    /\ op = [p \in Procs |-> "none"]
    /\ uid = [p \in Procs |-> 0]
    /\ snap = [p \in Procs |-> <<>>]
    /\ idx = [p \in Procs |-> 0]
    /\ locked = [p \in Procs |-> {}]
    /\ tx_inv = [p \in Procs |-> NoWrites]
    /\ tx_order = [p \in Procs |-> NoOrder]
    /\ arg = [p \in Procs |-> NoArg]
    /\ outcome = [p \in Procs |-> "none"]
    /\ inv0 = inventory

NextFirstTouch ==
    \E p \in Procs :
        \/ \E u \in Users : GetMyCartUpsert(p, u)
        \/ GetMyCartSelect(p)
        \/ \E u \in Users, v \in Variants, q \in AddQtyChoices :
              AddCartItemCheck(p, u, v, q)
        \/ AddCartItemUpsert(p)
        \/ \E u \in Users, id \in ItemIdChoices : DeleteCartItem(p, u, id)
        \/ Checkout(p)

\* first touches of the cart, next to the requests that empty a cart
SpecFirstTouch == InitFirstTouch /\ [][NextFirstTouch]_vars

\* a warehouse stock above the per-line cap, and add requests whose
\* quantities pass the cap one at a time
BulkStock == 200
BulkQtyChoices == {40, 60}

\* empty carts and a stock that does not limit the requests
InitBulk ==
    /\ inventory = [v \in Variants |-> [available |-> BulkStock, reserved |-> 0]]
    /\ price_cents = [v \in Variants |-> IF v = 1 THEN 250 ELSE 120]
    /\ cart_items = {}
    /\ carts = {[user_id |-> u, tx |-> 0] : u \in Users}
    /\ next_item_id = 1
    /\ orders = <<>>
    /\ pc = [p \in Procs |-> "idle"]
    /\ op = [p \in Procs |-> "none"]
    /\ uid = [p \in Procs |-> 0]
    /\ snap = [p \in Procs |-> <<>>]
    /\ idx = [p \in Procs |-> 0]
    /\ locked = [p \in Procs |-> {}]
    /\ tx_inv = [p \in Procs |-> NoWrites]
    /\ tx_order = [p \in Procs |-> NoOrder]
    /\ arg = [p \in Procs |-> NoArg]
    /\ outcome = [p \in Procs |-> "none"]
    /\ inv0 = inventory

NextBulk ==
    \E p \in Procs :
        \/ \E u \in Users, v \in Variants, q \in BulkQtyChoices :
              AddCartItemCheck(p, u, v, q)
        \/ AddCartItemUpsert(p)

\* concurrent add_cart_item requests that stock does not limit
SpecBulk == InitBulk /\ [][NextBulk]_vars

\* ProductVariant.in_stock
in_stock(variant) == variant.available - variant.reserved > 0

\* the lines of a cart as get_cart_by_user_id returns them, each with the
\* available quantity its validation has seen (-1: not validated yet)
CartToValidate(S) ==
    LET lines == CartLines(S)
    IN  [i \in 1 .. Len(lines) |->
            [id |-> lines[i].id, variant_id |-> lines[i].variant_id,
             quantity |-> lines[i].quantity, observed |-> -1]]

\* the lines of the cart object handed back
ReturnedLines(lines) ==
    [i \in 1 .. Len(lines) |->
        [id |-> lines[i].id, variant_id |-> lines[i].variant_id,
         quantity |-> lines[i].quantity]]

\* get_user_cart: get_cart_by_user_id
SvcGetRead(p, u) ==
    /\ Free(p)
    /\ op' = [op EXCEPT ![p] = "CartService.get_user_cart"]
    /\ uid' = [uid EXCEPT ![p] = u]
    /\ snap' = [snap EXCEPT ![p] = CartToValidate(CartOf(cart_items, u))]
    /\ idx' = [idx EXCEPT ![p] = 1]
    /\ arg' = [arg EXCEPT ![p] = [items_removed |-> 0, returned |-> <<>>]]
    /\ IF snap'[p] = <<>>
       THEN CartDone(p, "ok")
       ELSE /\ pc' = [pc EXCEPT ![p] = "svc_get_variant"]
            /\ outcome' = outcome
    /\ UNCHANGED <<inventory, price_cents, cart_items, next_item_id, orders,
                   locked, tx_inv, tx_order, inv0, carts>>

\* the end of one round of the loop of _validate_cart_items over the lines
\* read: the next line, or after the last one the refresh of the cart when
\* lines were removed, else the return of the cart object as it is
GetAdvance(p, lines, items_removed) ==
    IF idx[p] < Len(lines)
    THEN /\ idx' = [idx EXCEPT ![p] = @ + 1]
         /\ pc' = [pc EXCEPT ![p] = "svc_get_variant"]
         /\ arg' = [arg EXCEPT ![p].items_removed = items_removed]
         /\ outcome' = outcome
    ELSE IF items_removed > 0
    THEN /\ idx' = idx
         /\ pc' = [pc EXCEPT ![p] = "svc_get_refresh"]
         /\ arg' = [arg EXCEPT ![p].items_removed = items_removed]
         /\ outcome' = outcome
    ELSE /\ idx' = idx
         /\ arg' = [arg EXCEPT ![p] = [items_removed |-> items_removed,
                                       returned |-> ReturnedLines(lines)]]
         /\ CartDone(p, "ok")

\* _validate_cart_items: get_variant_by_id for the line and the decision
\* to remove it, to lower its quantity or to keep it
SvcGetVariant(p) ==
    /\ pc[p] = "svc_get_variant"
    /\ LET i == idx[p]
           item == snap[p][i]
           variant == inventory[item.variant_id]
           max_available == available_quantity(variant)
       IN  /\ snap' = [snap EXCEPT ![p][i].observed = max_available]
           /\ IF ~in_stock(variant)
              THEN /\ pc' = [pc EXCEPT ![p] = "svc_get_remove"]
                   /\ UNCHANGED <<idx, arg, outcome>>
              ELSE IF item.quantity > max_available
              THEN /\ pc' = [pc EXCEPT ![p] = IF max_available > 0
                                              THEN "svc_get_adjust"
                                              ELSE "svc_get_remove"]
                   /\ UNCHANGED <<idx, arg, outcome>>
              ELSE GetAdvance(p, snap'[p], arg[p].items_removed)
    /\ UNCHANGED <<inventory, price_cents, cart_items, next_item_id, orders,
                   op, uid, locked, tx_inv, tx_order, inv0, carts>>

\* cart_repo.remove_cart_item of the line; when the line is gone it raises
\* NotFoundError, the handler's own remove_cart_item raises it again, and
\* get_user_cart ends in BusinessLogicError
SvcGetRemove(p) ==
    /\ pc[p] = "svc_get_remove"
    /\ LET id == snap[p][idx[p]].id
       IN  IF get_item_by_id(cart_items, uid[p], id) = NoItem
           THEN /\ cart_items' = cart_items
                /\ CartDone(p, "BusinessLogicError")
                /\ UNCHANGED <<idx, arg>>
           ELSE /\ cart_items' = RemoveLine(cart_items, id)
                /\ GetAdvance(p, snap[p], arg[p].items_removed + 1)
    /\ UNCHANGED <<inventory, price_cents, next_item_id, orders, op, uid, snap,
                   locked, tx_inv, tx_order, inv0, carts>>

\* a lowering that leaves the stored line as it is
LowerLineNowhere(items, id, quantity) == items

\* cart_repo.update_cart_item_quantity of the line to the available quantity
LowerLine(items, id, quantity) ==
    {IF ci.id = id THEN [ci EXCEPT !.quantity = quantity] ELSE ci : ci \in items}

\* the lowering of the line's quantity, stored and in the cart object
SvcGetAdjust(p) ==
    /\ pc[p] = "svc_get_adjust"
    /\ LET i == idx[p]
           id == snap[p][i].id
           max_available == snap[p][i].observed
       IN  IF get_item_by_id(cart_items, uid[p], id) = NoItem
           THEN /\ cart_items' = cart_items
                /\ snap' = snap
                /\ CartDone(p, "BusinessLogicError")
                /\ UNCHANGED <<idx, arg>>
           ELSE /\ cart_items' = LowerLine(cart_items, id, max_available)
                /\ snap' = [snap EXCEPT ![p][i].quantity = max_available]
                /\ GetAdvance(p, snap'[p], arg[p].items_removed)
    /\ UNCHANGED <<inventory, price_cents, next_item_id, orders, op, uid,
                   locked, tx_inv, tx_order, inv0, carts>>

\* the refresh of the cart from the database after removals
SvcGetRefresh(p) ==
    /\ pc[p] = "svc_get_refresh"
    /\ arg' = [arg EXCEPT ![p].returned =
                  ReturnedLines(CartLines(CartOf(cart_items, uid[p])))]
    /\ CartDone(p, "ok")
    /\ UNCHANGED <<inventory, price_cents, cart_items, next_item_id, orders,
                   op, uid, snap, idx, locked, tx_inv, tx_order, inv0, carts>>

GetUserCart(p) ==
    \/ \E u \in Users : SvcGetRead(p, u)
    \/ SvcGetVariant(p)
    \/ SvcGetRemove(p)
    \/ SvcGetAdjust(p)
    \/ SvcGetRefresh(p)

\* stock and carts in which lines exceed the stock or have none left
GetCartInventoryChoices ==
    { <<[available |-> 10, reserved |-> 3], [available |-> 3, reserved |-> 3]>>,
      <<[available |-> 3, reserved |-> 0], [available |-> 10, reserved |-> 3]>>,
      <<[available |-> 10, reserved |-> 0], [available |-> 10, reserved |-> 0]>> }
GetCartReserveChoices == {2}

InitGetCart ==
    /\ \E i \in GetCartInventoryChoices : inventory = [v \in Variants |-> i[v]]
    /\ price_cents = [v \in Variants |-> IF v = 1 THEN 250 ELSE 120]
    /\ \E c \in {<<CartOfTwo(5, 4), CartOfOne(3)>>} :
          cart_items = {[id |-> (u - 1) * Cardinality(Variants) + v, user_id |-> u,
                         variant_id |-> v, quantity |-> c[u][v]] :
                        <<u, v>> \in {x \in Users \X Variants : c[x[1]][x[2]] > 0}}
    /\ next_item_id = Cardinality(Users) * Cardinality(Variants) + 1
    /\ orders = <<>>
    /\ pc = [p \in Procs |-> "idle"]
    /\ op = [p \in Procs |-> "none"]
    /\ uid = [p \in Procs |-> 0]
    /\ snap = [p \in Procs |-> <<>>]
    /\ idx = [p \in Procs |-> 0]
    /\ locked = [p \in Procs |-> {}]
    /\ tx_inv = [p \in Procs |-> NoWrites]
    /\ tx_order = [p \in Procs |-> NoOrder]
    /\ arg = [p \in Procs |-> NoArg]
    /\ outcome = [p \in Procs |-> "none"]
    /\ inv0 = inventory
    /\ carts = {[user_id |-> u, tx |-> 0] : u \in Users}

NextGetCart ==
    \E p \in Procs :
        \/ GetUserCart(p)
        \/ \E v \in Variants, q \in GetCartReserveChoices : ServiceReserveCheck(p, v, q)
        \/ ServiceReserveUpdate(p)
        \/ \E v \in Variants, q \in GetCartReserveChoices : ServiceRelease(p, v, q)
        \/ \E u \in Users, v \in Variants, q \in SvcAddQtyChoices : SvcAddCheck(p, u, v, q)
        \/ SvcAddRead(p)
        \/ SvcAddSelect(p)
        \/ SvcAddWrite(p)

\* get_user_cart while reservations, releases and adds go on
SpecGetCart == InitGetCart /\ [][NextGetCart]_vars

\* checkouts only: attempts that fail and attempts that follow them
SpecCheckout == Init /\ [][NextCheckout]_vars

\* concurrent checkouts; a worker that can take a step of its transaction
\* eventually takes it (one worker per request, none is starved)
SpecLocks ==
    InitOverlap /\ [][NextCheckout]_vars /\ \A p \in Procs : WF_vars(CheckoutProgress(p))

\* checkout requests together with inventory calls of the repository
NextRepo == \E p \in Procs : Checkout(p) \/ Repo(p)

SpecRepo == Init /\ [][NextRepo]_vars

\* ================================================================ claims
OrderIds == 1 .. Len(orders)

IsCheckout(p) == op[p] = "checkout"

RECURSIVE SumOver(_, _)
\* sum of f over the finite set S of its domain
SumOver(f, S) ==
    IF S = {} THEN 0
    ELSE LET x == CHOOSE y \in S : TRUE IN f[x] + SumOver(f, S \ {x})

\* units of variant v in one order
QtyInOrder(o, v) ==
    SumSeq([i \in 1 .. Len(o.items) |->
               IF o.items[i].variant_id = v THEN o.items[i].quantity ELSE 0])

\* units of variant v in all committed orders
OrderedQty(v) == SumOver([k \in OrderIds |-> QtyInOrder(orders[k], v)], OrderIds)

\* C1: no oversell -- the units of a variant in the committed orders never
\* exceed the variant's available count before the checkouts began
C1_NoOversell == \A v \in Variants : OrderedQty(v) <= inv0[v].available

\* two checkouts competed for one variant: one committed, one was refused
C1_Witness ==
    \E p, q \in Procs, v \in Variants :
        /\ IsCheckout(p) /\ IsCheckout(q)
        /\ outcome[p] = "created" /\ outcome[q] = "insufficient"
        /\ \E i \in 1 .. Len(snap[p]) : snap[p][i].variant_id = v
        /\ \E i \in 1 .. Len(snap[q]) : snap[q][i].variant_id = v
        /\ OrderedQty(v) > 0

\* C2: after any interleaving of checkout, reserve_inventory,
\* release_inventory_reservation and update_inventory every inventory row
\* has available >= 0 and reserved >= 0
C2_NonNegative ==
    \A v \in Variants : inventory[v].available >= 0 /\ inventory[v].reserved >= 0

\* a checkout committed and a repository call that would have driven a
\* count negative was refused
C2_Witness ==
    \E p, q \in Procs :
        /\ IsCheckout(p) /\ outcome[p] = "created"
        /\ op[q] = "reserve_inventory" /\ outcome[q] = "error"

OneLine(p, v, n) ==
    /\ Len(snap[p]) = 1
    /\ snap[p][1].variant_id = v
    /\ snap[p][1].quantity = n

Finished(p) == IsCheckout(p) /\ pc[p] = "done"

\* worker p takes a step in which its checkout ends without an order
CheckoutRefused(p) ==
    IsCheckout(p) /\ pc[p] # "done" /\ pc'[p] = "done" /\ outcome'[p] # "created"

\* orders committed by the checkouts of workers in P
OrdersOf(P) == {k \in OrderIds : orders[k].req \in P}

\* two finished checkouts of different users, each of one line of 6 units
\* of v, from available = 10, reserved = 0, no database failure and no
\* other order of v
C4_Scenario(p, q, v) ==
    /\ p # q /\ Finished(p) /\ Finished(q)
    /\ uid[p] # uid[q]
    /\ inv0[v] = [available |-> 10, reserved |-> 0]
    /\ OneLine(p, v, 6) /\ OneLine(q, v, 6)
    /\ outcome[p] # "dberror" /\ outcome[q] # "dberror"
    /\ \A k \in OrderIds : QtyInOrder(orders[k], v) > 0 => orders[k].req \in {p, q}

C4_Result(p, q, v) ==
    /\ {outcome[p], outcome[q]} = {"created", "insufficient"}
    /\ Cardinality(OrdersOf({p, q})) = 1
    /\ inventory[v].available = 4

\* C4: of two concurrent checkouts of 6 units each from available = 10
\* exactly one commits an order, leaving available = 4, and the other is
\* refused for insufficient stock and changes no inventory, order or cart
C4_TwoCheckoutsOfSix ==
    /\ [](\A p, q \in Procs, v \in Variants : C4_Scenario(p, q, v) => C4_Result(p, q, v))
    /\ [][\A p \in Procs : (CheckoutRefused(p) /\ outcome'[p] = "insufficient")
                              => UNCHANGED dbvars]_vars

C4_Witness ==
    \E p, q \in Procs, v \in Variants :
        /\ C4_Scenario(p, q, v)
        /\ outcome[p] = "created" /\ outcome[q] = "insufficient"
        /\ \E ci \in cart_items : ci.user_id = uid[q] /\ ci.variant_id = v /\ ci.quantity = 6

\* worker p takes a step of its checkout
CheckoutStep(p) ==
    /\ op'[p] = "checkout"
    /\ <<pc[p], idx[p], snap[p], locked[p], tx_inv[p], tx_order[p]>>
         # <<pc'[p], idx'[p], snap'[p], locked'[p], tx_inv'[p], tx_order'[p]>>

\* C5: checkout is all-or-nothing -- every step of a checkout other than
\* its commit leaves inventory, orders, order lines and carts as they were,
\* and a checkout that fails leaves no write and no lock behind
C5_AllOrNothing ==
    [][\A p \in Procs :
          /\ (CheckoutStep(p) /\ outcome'[p] # "created") => UNCHANGED dbvars
          /\ CheckoutRefused(p) =>
                (tx_inv'[p] = NoWrites /\ tx_order'[p] = NoOrder /\ locked'[p] = {})]_vars

\* a cart of two lines whose first line passes and whose second line fails
\* validation: refused with the inventory as it was
C5_Witness ==
    \E p \in Procs :
        /\ Finished(p) /\ outcome[p] = "insufficient"
        /\ Len(snap[p]) = 2 /\ Sufficient(snap[p][1]) /\ ~Sufficient(snap[p][2])
        /\ inventory = inv0 /\ orders = <<>>

\* worker p takes the step that commits its checkout
CheckoutCommits(p) ==
    IsCheckout(p) /\ pc[p] # "done" /\ pc'[p] = "done" /\ outcome'[p] = "created"

\* C6: the step that commits a checkout leaves the user's cart without
\* lines and adds exactly one order, of that user, with as many lines as the
\* cart held when the checkout read it
C6_CartClearedOneOrder ==
    [][\A p \in Procs : CheckoutCommits(p) =>
          /\ CartOf(cart_items', uid[p]) = {}
          /\ Len(orders') = Len(orders) + 1
          /\ SubSeq(orders', 1, Len(orders)) = orders
          /\ orders'[Len(orders')].user_id = uid[p]
          /\ Len(orders'[Len(orders')].items) = Len(snap[p])]_vars

C6_Witness ==
    \E p \in Procs :
        /\ Finished(p) /\ outcome[p] = "created" /\ Len(snap[p]) = 2
        /\ CartOf(cart_items, uid[p]) = {}
        /\ \E k \in OrderIds : orders[k].req = p /\ Len(orders[k].items) = 2

\* C7: every order's total is the sum of unit price x quantity over its
\* lines, every subtotal is unit price x quantity, and none is negative
C7_OrderTotals ==
    \A k \in OrderIds :
        LET o == orders[k] IN
        /\ o.total_cents =
              SumSeq([i \in 1 .. Len(o.items) |->
                         o.items[i].unit_price_cents * o.items[i].quantity])
        /\ o.total_cents \in Nat
        /\ \A i \in 1 .. Len(o.items) :
              /\ o.items[i].subtotal_cents =
                    o.items[i].unit_price_cents * o.items[i].quantity
              /\ o.items[i].subtotal_cents \in Nat

C7_Witness ==
    \E k \in OrderIds :
        /\ Len(orders[k].items) = 2
        /\ orders[k].items[1].quantity > 1
        /\ orders[k].total_cents > orders[k].items[1].subtotal_cents

\* a single finished checkout of one line of 5 units of v from
\* available = 10, reserved = 0, without database failure
C8_Scenario(p, v) ==
    /\ Finished(p) /\ outcome[p] # "dberror"
    /\ \A q \in Procs \ {p} : pc[q] = "idle"
    /\ inv0[v] = [available |-> 10, reserved |-> 0]
    /\ OneLine(p, v, 5)

\* C8: a single checkout of 5 units from available = 10, reserved = 0 ends
\* with available = 5, reserved = 5, one order of one line of subtotal
\* 5 x unit price, and an empty cart
C8_SingleCheckoutOfFive ==
    \A p \in Procs, v \in Variants : C8_Scenario(p, v) =>
        /\ outcome[p] = "created"
        /\ inventory[v] = [available |-> 5, reserved |-> 5]
        /\ Len(orders) = 1
        /\ Len(orders[1].items) = 1
        /\ orders[1].items[1].variant_id = v
        /\ orders[1].items[1].subtotal_cents = 5 * price_cents[v]
        /\ CartOf(cart_items, uid[p]) = {}

C8_Witness ==
    \E p \in Procs, v \in Variants :
        C8_Scenario(p, v) /\ outcome[p] = "created" /\ Len(orders) = 1

\* C9: a checkout that finds the cart empty is refused as a client error
\* and creates no order and changes no inventory row
C9_EmptyCartRefused ==
    [][\A p \in Procs :
          /\ (pc[p] = "idle" /\ op'[p] = "checkout"
                /\ CartOf(cart_items, uid'[p]) = {})
                => (snap'[p] = <<>> /\ pc'[p] = "validate" /\ UNCHANGED dbvars)
          /\ (IsCheckout(p) /\ pc[p] = "validate" /\ snap[p] = <<>>
                /\ pc'[p] # "validate")
                => (pc'[p] = "done" /\ outcome'[p] = "empty" /\ UNCHANGED dbvars)]_vars

C9_Witness ==
    \E p \in Procs :
        /\ Finished(p) /\ snap[p] = <<>> /\ outcome[p] = "empty"
        /\ orders = <<>> /\ inventory = inv0

\* C10: two checkouts of one user over the same cart serialize -- the cart
\* lines read by both are ordered once
C10_SameUserSerialized ==
    \A p, q \in Procs :
        (/\ p # q /\ Finished(p) /\ Finished(q)
         /\ uid[p] = uid[q]
         /\ \E i \in 1 .. Len(snap[p]), j \in 1 .. Len(snap[q]) :
               snap[p][i].cart_item_id = snap[q][j].cart_item_id)
        => ~(outcome[p] = "created" /\ outcome[q] = "created")

\* worker p waits for an inventory row that worker q holds locked
WaitsFor(p, q) ==
    /\ p # q
    /\ pc[p] = "locking"
    /\ snap[p][idx[p]].variant_id \in locked[q]

\* a set of workers each of which waits for another one of the set
Deadlocked(S) == S # {} /\ \A p \in S : \E q \in S : WaitsFor(p, q)

\* worker p takes a row lock on a variant above all those it holds
LocksAscending(p) ==
    locked'[p] # locked[p] /\ locked'[p] # {} =>
        \A v \in locked'[p] \ locked[p] : \A w \in locked[p] : w < v

\* C11: checkouts take their inventory row locks in ascending variant id, no
\* set of checkouts waits in a cycle, and every started checkout eventually
\* ends, committed or aborted
C11_LockOrderNoDeadlock ==
    /\ [][\A p \in Procs : LocksAscending(p)]_vars
    /\ [](\A S \in SUBSET Procs : ~Deadlocked(S))
    /\ \A p \in Procs : (IsCheckout(p) /\ pc[p] # "done") ~> (pc[p] = "done")

\* one checkout waits for a row of a variant both carts hold while it
\* already holds a lock itself
C11_Witness ==
    \E p, q \in Procs :
        /\ WaitsFor(p, q)
        /\ locked[p] # {}
        /\ Len(snap[p]) = 2 /\ Len(snap[q]) >= 1

\* variants of the rows checkout p read, and the quantity it read for v
VariantsOf(p) == {snap[p][i].variant_id : i \in 1 .. Len(snap[p])}
QtyOf(p, v) == SumSeq([i \in 1 .. Len(snap[p]) |->
                          IF snap[p][i].variant_id = v THEN snap[p][i].quantity ELSE 0])

\* worker p is waiting for a row lock
Blocked(p) == pc[p] = "locking" /\ ~LockFree(snap[p][idx[p]].variant_id, p)

\* the only requests are the checkouts p and q, of different users, over
\* disjoint sets of variants
C12_Disjoint(p, q) ==
    /\ p # q /\ IsCheckout(p) /\ IsCheckout(q)
    /\ uid[p] # uid[q]
    /\ VariantsOf(p) \cap VariantsOf(q) = {}
    /\ \A r \in Procs \ {p, q} : pc[r] = "idle"

\* what checkout p does when it runs alone from the initial inventory
AloneOutcome(p) ==
    IF snap[p] = <<>> THEN "empty"
    ELSE IF \E v \in VariantsOf(p) : QtyOf(p, v) > inv0[v].available - inv0[v].reserved
    THEN "insufficient"
    ELSE "created"

C12_SerialResult(p, q) ==
    /\ outcome[p] = AloneOutcome(p) /\ outcome[q] = AloneOutcome(q)
    /\ \A v \in Variants :
          LET w == {x \in {p, q} : v \in VariantsOf(x) /\ outcome[x] = "created"}
          IN  IF w = {} THEN inventory[v] = inv0[v]
              ELSE \A x \in w :
                     inventory[v] = [available |-> inv0[v].available - QtyOf(x, v),
                                     reserved  |-> inv0[v].reserved + QtyOf(x, v)]
    /\ Len(orders) = Cardinality({x \in {p, q} : outcome[x] = "created"})
    /\ \A x \in {p, q} :
          IF outcome[x] = "created"
          THEN /\ CartOf(cart_items, uid[x]) = {}
               /\ \E k \in OrderIds :
                     /\ orders[k].user_id = uid[x]
                     /\ Len(orders[k].items) = Len(snap[x])
                     /\ \A i \in 1 .. Len(snap[x]) :
                           /\ orders[k].items[i].variant_id = snap[x][i].variant_id
                           /\ orders[k].items[i].quantity = snap[x][i].quantity
          ELSE {<<ci.id, ci.variant_id, ci.quantity>> : ci \in CartOf(cart_items, uid[x])}
                 = {<<snap[x][i].cart_item_id, snap[x][i].variant_id, snap[x][i].quantity>> :
                       i \in 1 .. Len(snap[x])}

\* C12: two checkouts of different users over disjoint variants never wait
\* for each other, and however they interleave they end in the state each
\* of them reaches alone, which is the state of either serial order
C12_DisjointCheckoutsCommute ==
    \A p, q \in Procs : C12_Disjoint(p, q) =>
        /\ ~Blocked(p)
        /\ (/\ pc[p] = "done" /\ pc[q] = "done"
            /\ outcome[p] # "dberror" /\ outcome[q] # "dberror")
              => C12_SerialResult(p, q)

\* both committed, the second one having started while the first held its lock
C12_Witness ==
    \E p, q \in Procs :
        /\ C12_Disjoint(p, q)
        /\ outcome[p] = "created" /\ outcome[q] = "created"
        /\ VariantsOf(p) # {} /\ VariantsOf(q) # {}
        /\ Len(orders) = 2 /\ orders[1].req = q /\ p < q

\* worker p returns from the repository call name in this step
RepoReturns(p, name) == pc[p] = "idle" /\ pc'[p] = "done" /\ op'[p] = name

\* C13: a repository reserve_inventory(v, q) that the database executes adds
\* exactly q to reserved and returns true when available - reserved >= q
\* holds on the row it updates, and otherwise returns false and leaves the row
\* as it is; in no case, a failed statement included, does available change
C13_RepoReserve ==
    [][\A p \in Procs : RepoReturns(p, "reserve_inventory") =>
          LET v == arg'[p].variant_id
              q == arg'[p].quantity
              row == inventory[v]
          IN  /\ inventory'[v].available = row.available
              /\ \A w \in Variants \ {v} : inventory'[w] = inventory[w]
              /\ outcome'[p] = "true" =>
                    /\ row.available - row.reserved >= q
                    /\ inventory'[v].reserved = row.reserved + q
              /\ outcome'[p] = "false" =>
                    /\ row.available - row.reserved < q
                    /\ inventory'[v] = row
              /\ outcome'[p] = "error" => inventory'[v] = row
              /\ outcome'[p] \in {"true", "false", "error"}
              /\ (row.available - row.reserved >= q /\ q >= 0) => outcome'[p] # "false"
              /\ row.available - row.reserved < q => outcome'[p] # "true"]_vars

\* a reservation was taken on a row that a checkout had already reserved from
C13_Witness ==
    \E p \in Procs :
        /\ op[p] = "reserve_inventory" /\ outcome[p] = "true"
        /\ arg[p].quantity > 0
        /\ inventory[arg[p].variant_id].reserved > arg[p].quantity
        /\ inventory[arg[p].variant_id].available > 0

ServiceReserveEnded(p) ==
    op[p] = "ProductService.reserve_inventory" /\ pc[p] = "done"

\* the reservation of worker p was refused because the variant it read
\* had less net stock than the quantity asked for
LackOfStock(p) ==
    /\ ServiceReserveEnded(p)
    /\ arg[p].read_ok
    /\ arg[p].variant.available - arg[p].variant.reserved < arg[p].quantity
    /\ outcome[p] # "ValidationError"

\* the read of the variant failed in the database
ReadFailed(p) ==
    /\ ServiceReserveEnded(p)
    /\ ~arg[p].read_ok
    /\ outcome[p] # "ValidationError"

\* C14: ProductService.reserve_inventory reports a reservation refused for
\* lack of stock as the value false, and not with the result it gives for
\* a failure of the database
C14_LackOfStockIsFalse ==
    \A p \in Procs :
        /\ LackOfStock(p) => outcome[p] = "false"
        /\ \A q \in Procs : LackOfStock(p) /\ ReadFailed(q) => outcome[p] # outcome[q]

\* C15: release_inventory_reservation(v, q) sets reserved to
\* max(0, reserved - q) and leaves available and every other row as they
\* are: a release of more than is reserved ends at 0, and so does a release
\* from 0; a call that is rejected or fails writes nothing
C15_ReleaseClamps ==
    [][\A p \in Procs :
          RepoReturns(p, "ProductService.release_inventory_reservation") =>
              LET v == arg'[p].variant_id
                  q == arg'[p].quantity
                  row == inventory[v]
              IN  /\ inventory'[v].available = row.available
                  /\ \A w \in Variants \ {v} : inventory'[w] = inventory[w]
                  /\ outcome'[p] \in {"true", "ValidationError", "BusinessLogicError"}
                  /\ outcome'[p] = "true" =>
                        /\ q > 0
                        /\ inventory'[v].reserved =
                              (IF row.reserved > q THEN row.reserved - q ELSE 0)
                        /\ inventory'[v].reserved >= 0
                  /\ outcome'[p] # "true" => inventory'[v] = row
                  /\ q <= 0 => outcome'[p] = "ValidationError"]_vars

\* 6 of 15 reserved units were released, and then 100 of the remaining 9
C15_Witness ==
    \E p, r \in Procs, v \in Variants :
        /\ p < r
        /\ op[p] = "ProductService.release_inventory_reservation"
        /\ op[r] = "ProductService.release_inventory_reservation"
        /\ outcome[p] = "true" /\ outcome[r] = "true"
        /\ arg[p] = [variant_id |-> v, quantity |-> 6, read_ok |-> FALSE, variant |-> NoVariant]
        /\ arg[r].variant_id = v /\ arg[r].quantity = 100
        /\ inv0[v].reserved = 15
        /\ inventory[v] = [available |-> inv0[v].available, reserved |-> 0]

CheckEnded(p) ==
    /\ op[p] = "check_variant_availability" /\ pc[p] = "done"
    /\ arg[p].quantity >= 1 /\ arg[p].read_ok

\* C16 as stated: check_variant_availability returns true exactly when
\* available - reserved >= q on the snapshot it read
C16_TrueIffNetCovers ==
    \A p \in Procs : CheckEnded(p) =>
        (outcome[p] = "true"
            <=> arg[p].variant.available - arg[p].variant.reserved >= arg[p].quantity)

\* the units held back as minimum stock: 1 below 40 units of stock, a
\* twentieth of the stock from there on, and 5 from 100 units on
HeldBack(available) ==
    IF available < 40 THEN 1
    ELSE IF available >= 100 THEN 5
    ELSE CHOOSE m \in 2 .. 4 : 20 * m <= available /\ available < 20 * (m + 1)

\* C16: for q >= 1, check_variant_availability returns true exactly when the
\* variant was read and its net stock available - reserved, less the minimum
\* stock held back, is at least q; it returns false otherwise, and it leaves
\* inventory, carts and orders as they are
C16_TrueIffEffectiveCovers ==
    [][\A p \in Procs : RepoReturns(p, "check_variant_availability") =>
          LET row == inventory[arg'[p].variant_id]
              q == arg'[p].quantity
          IN  /\ dbvars' = dbvars
              /\ q >= 1 =>
                    /\ outcome'[p] \in {"true", "false"}
                    /\ outcome'[p] = "true" <=>
                          /\ arg'[p].read_ok
                          /\ row.available - row.reserved - HeldBack(row.available) >= q
              /\ q < 1 => outcome'[p] = "ValidationError"]_vars

\* 100 units are available of 120 in stock with 15 reserved and 5 held back
C16_Witness ==
    \E p \in Procs :
        /\ CheckEnded(p)
        /\ outcome[p] = "true"
        /\ arg[p].quantity = 100
        /\ arg[p].variant = [available |-> 120, reserved |-> 15]

\* the lines of user u for variant v, and the quantity the cart holds of it
LinesOf(items, u, v) == {ci \in items : ci.user_id = u /\ ci.variant_id = v}
LineQty(items, u, v) ==
    SumOver([ci \in LinesOf(items, u, v) |-> ci.quantity], LinesOf(items, u, v))

\* C17: add_cart_item rejects the request, the cart unchanged, exactly when
\* the quantity of the existing line plus the requested quantity exceeds 99
\* or the net available stock it reads; a request it accepts leaves one line
\* for the variant whose quantity is that of the line it finds plus the
\* requested quantity, every other line unchanged
C17_AddRejectsOrAdds ==
    [][\A p \in Procs :
          /\ (pc[p] = "idle" /\ op'[p] = "add") =>
                LET u == uid'[p]
                    v == arg'[p].variant_id
                    total == LineQty(cart_items, u, v) + arg'[p].quantity
                IN  /\ cart_items' = cart_items
                    /\ inventory' = inventory
                    /\ IF total > 99
                          \/ total > inventory[v].available - inventory[v].reserved
                       THEN pc'[p] = "done" /\ outcome'[p] = "rejected"
                       ELSE pc'[p] = "add_upsert"
          /\ (pc[p] = "add_upsert" /\ pc'[p] = "done") =>
                LET u == uid[p]
                    v == arg[p].variant_id
                IN  /\ outcome'[p] = "ok"
                    /\ Cardinality(LinesOf(cart_items', u, v)) = 1
                    /\ LineQty(cart_items', u, v)
                          = LineQty(cart_items, u, v) + arg[p].quantity
                    /\ cart_items' \ LinesOf(cart_items', u, v)
                          = cart_items \ LinesOf(cart_items, u, v)
                    /\ inventory' = inventory]_vars

\* one unit was added to the line of 2 units in the cart of user 1
C17_Witness ==
    \E p \in Procs :
        /\ op[p] = "add" /\ outcome[p] = "ok"
        /\ uid[p] = 1 /\ arg[p] = [variant_id |-> 1, quantity |-> 1]
        /\ LinesOf(cart_items, 1, 1) = {[id |-> 1, user_id |-> 1, variant_id |-> 1, quantity |-> 3]}

UpdateToZero(p) ==
    /\ pc[p] = "idle" /\ op'[p] = "update"
    /\ arg'[p].quantity = 0
    /\ \E ci \in cart_items : ci.id = arg'[p].item_id /\ ci.user_id = uid'[p]

\* C19: every cart line has a quantity of at least 1 in every reachable
\* state; an update to quantity 0 of a line of the caller deletes the line
\* and stores nothing
C19_QuantityAtLeastOne ==
    /\ [](\A ci \in cart_items : ci.quantity >= 1)
    /\ [][\A p \in Procs : UpdateToZero(p) =>
             /\ outcome'[p] = "ok"
             /\ \A ci \in cart_items' : ci.id # arg'[p].item_id /\ ci.quantity >= 1]_vars

\* an update to 0 has deleted line 1 while line 2 of the same cart remains
C19_Witness ==
    \E p \in Procs :
        /\ op[p] = "update" /\ outcome[p] = "ok" /\ uid[p] = 1
        /\ arg[p] = [item_id |-> 1, quantity |-> 0]
        /\ \A ci \in cart_items : ci.id # 1
        /\ \E ci \in cart_items : ci.user_id = 1 /\ ci.quantity >= 1

\* C20: update_cart_item with quantity 0 on a line of the caller succeeds,
\* deletes that line and no other, and leaves available and reserved of
\* every inventory row as they are
C20_UpdateZeroRemovesLine ==
    [][\A p \in Procs : UpdateToZero(p) =>
          /\ pc'[p] = "done" /\ outcome'[p] = "ok"
          /\ cart_items' = {ci \in cart_items : ci.id # arg'[p].item_id}
          /\ cart_items' # cart_items
          /\ inventory' = inventory
          /\ orders' = orders]_vars

\* line 1 of a cart of two lines was removed by an update to 0 after a
\* checkout of the other user had reserved stock
C20_Witness ==
    \E p \in Procs :
        /\ op[p] = "update" /\ outcome[p] = "ok" /\ uid[p] = 1
        /\ arg[p] = [item_id |-> 1, quantity |-> 0]
        /\ CartOf(cart_items, 1) = {[id |-> 2, user_id |-> 1, variant_id |-> 2, quantity |-> 4]}
        /\ \E v \in Variants : inventory[v].reserved > 0

\* worker p ends a cart mutation of the service in this step
SvcMutationStep(p) ==
    /\ op'[p] \in {"CartService.update_cart_item", "CartService.remove_cart_item",
                   "CartService.clear_cart"}
    /\ <<pc[p], idx[p]>> # <<pc'[p], idx'[p]>>

\* C21: no step of a CartService cart mutation changes available or
\* reserved of an inventory row
C21_CartServiceKeepsInventory ==
    [][(\E p \in Procs : SvcMutationStep(p)) => inventory' = inventory]_vars

\* worker p runs update_cart_item or delete_cart_item in this step
ItemRequest(p) == pc[p] = "idle" /\ op'[p] \in {"update", "delete"}

\* C22: update_cart_item and delete_cart_item with the id of a line of
\* another user's cart end as they do with an id no line has, in NotFound,
\* and change no line
C22_ForeignLineNotFound ==
    [][\A p \in Procs : ItemRequest(p) =>
          LET id == arg'[p].item_id
              Exists == \E ci \in cart_items : ci.id = id
              Own == \E ci \in cart_items : ci.id = id /\ ci.user_id = uid'[p]
          IN  /\ ~Own => (outcome'[p] = "notfound" /\ cart_items' = cart_items)
              /\ Own => outcome'[p] # "notfound"]_vars

\* one request named a line of the other user's cart and one a line id
\* that does not exist; both ended in NotFound and the line is as it was
C22_Witness ==
    \E p, r \in Procs :
        /\ op[p] \in {"update", "delete"} /\ op[r] \in {"update", "delete"}
        /\ outcome[p] = "notfound" /\ outcome[r] = "notfound"
        /\ uid[p] = 1
        /\ \E ci \in cart_items : ci.id = arg[p].item_id /\ ci.user_id = 2
        /\ arg[r].item_id = next_item_id
        /\ \A ci \in cart_items : ci.id # arg[r].item_id

\* worker p runs update_cart_item in this step, with a quantity above 0 on
\* a line of the caller's cart
UpdateToPositive(p) ==
    /\ pc[p] = "idle" /\ op'[p] = "update"
    /\ arg'[p].quantity > 0
    /\ \E ci \in cart_items : ci.id = arg'[p].item_id /\ ci.user_id = uid'[p]

\* C23: update_cart_item with q > 0 stores q in the line when q is at most
\* the net available stock of the line's variant, and is rejected with the
\* line as it was when q is above it; no other line and no inventory row
\* changes in either case
C23_UpdateChecksNetStock ==
    [][\A p \in Procs : UpdateToPositive(p) =>
          LET id == arg'[p].item_id
              q == arg'[p].quantity
              line == CHOOSE ci \in cart_items : ci.id = id
              row == inventory[line.variant_id]
          IN  /\ inventory' = inventory
              /\ IF q <= row.available - row.reserved
                 THEN /\ outcome'[p] = "ok"
                      /\ cart_items' = (cart_items \ {line})
                                          \cup {[line EXCEPT !.quantity = q]}
                 ELSE /\ outcome'[p] = "rejected"
                      /\ cart_items' = cart_items]_vars

\* an update to 6 was rejected with 7 units in stock of which 3 are
\* reserved by a committed checkout
C23_Witness ==
    \E p \in Procs, ci \in cart_items :
        /\ op[p] = "update" /\ outcome[p] = "rejected"
        /\ arg[p].quantity = 6 /\ arg[p].item_id = ci.id /\ uid[p] = ci.user_id
        /\ inventory[ci.variant_id] = [available |-> 7, reserved |-> 3]
        /\ ci.quantity = 2

\* C24: clear_cart reports success whether or not the cart holds lines,
\* leaves the cart without lines, and changes no line when there is none
C24_ClearReportsSuccess ==
    [][\A p \in Procs :
          (pc[p] = "svc_clear_delete" /\ pc'[p] = "done") =>
              /\ outcome'[p] = "true"
              /\ CartOf(cart_items', uid[p]) = {}
              /\ CartOf(cart_items, uid[p]) = {} => cart_items' = cart_items]_vars

\* ---- C25 ----
\* C25: the prices a checkout's cart read returns are the variants' prices
\* at that moment; the order it commits carries exactly those unit prices
\* (subtotals and total computed from them), whatever the prices were while
\* the lines sat in the cart or became before the commit; and no step, a
\* price change in particular, alters an order that already exists.
C25_OrderKeepsCheckoutPrice ==
    [][/\ \A p \in Procs :
             (pc[p] = "idle" /\ op'[p] = "checkout") =>
                 \A i \in 1 .. Len(snap'[p]) :
                     snap'[p][i].price_cents = price_cents[snap'[p][i].variant_id]
       /\ \A p \in Procs :
             CheckoutCommits(p) =>
                 /\ Len(orders') = Len(orders) + 1
                 /\ LET o == orders'[Len(orders')]
                    IN  /\ Len(o.items) = Len(snap[p])
                        /\ \A i \in 1 .. Len(snap[p]) :
                              /\ o.items[i].variant_id = snap[p][i].variant_id
                              /\ o.items[i].unit_price_cents = snap[p][i].price_cents
                              /\ o.items[i].subtotal_cents =
                                    snap[p][i].quantity * snap[p][i].price_cents
                        /\ o.total_cents =
                              SumSeq([i \in 1 .. Len(snap[p]) |->
                                        snap[p][i].quantity * snap[p][i].price_cents])
       /\ \A k \in 1 .. Len(orders) : orders'[k] = orders[k]
       /\ price_cents' # price_cents => orders' = orders]_vars

\* an order whose line was priced after a change of the variant's price
\* (the cart line is older than that price), and the price changed again
\* after the order was committed
C25_Witness ==
    \E k \in 1 .. Len(orders) :
        \E i \in 1 .. Len(orders[k].items) :
            LET l == orders[k].items[i]
            IN  /\ l.unit_price_cents = 300
                /\ price_cents[l.variant_id] = 120
                /\ l.variant_id = 2

\* ---- C26 ----
\* a checkout attempt of user u that ended without creating an order
CheckoutAborted(p, u) ==
    IsCheckout(p) /\ uid[p] = u /\ pc[p] = "done" /\ outcome[p] # "created"

\* C26: a checkout attempt that ends without "created" leaves inventory,
\* carts and orders as they were; and when a checkout commits after every
\* other attempt of the same user has aborted (at least one has), the user
\* has exactly one order, it holds the cart's lines, the cart is empty and
\* each variant's inventory has moved by the cart's quantity exactly once.
C26_RetryAfterAbort ==
    [][\A q \in Procs :
          /\ (IsCheckout(q) /\ pc[q] # "done" /\ pc'[q] = "done"
                 /\ outcome'[q] # "created") =>
                 /\ inventory' = inventory
                 /\ cart_items' = cart_items
                 /\ orders' = orders
          /\ (/\ CheckoutCommits(q)
              /\ \E p \in Procs \ {q} : CheckoutAborted(p, uid[q])
              /\ \A r \in Procs \ {q} :
                    (IsCheckout(r) /\ uid[r] = uid[q]) => CheckoutAborted(r, uid[q])) =>
                 /\ Cardinality({k \in 1 .. Len(orders') :
                                    orders'[k].user_id = uid[q]}) = 1
                 /\ orders'[Len(orders')].user_id = uid[q]
                 /\ CartOf(cart_items', uid[q]) = {}
                 /\ \A v \in Variants :
                       LET n == LineQty(cart_items, uid[q], v)
                       IN  /\ QtyInOrder(orders'[Len(orders')], v) = n
                           /\ inventory'[v].available = inventory[v].available - n
                           /\ inventory'[v].reserved = inventory[v].reserved + n]_vars

\* an attempt of user 1 failed with a database error, a second attempt
\* created the order, and the user has an order
C26_Witness ==
    \E p, q \in Procs :
        /\ CheckoutAborted(p, 1) /\ outcome[p] = "dberror"
        /\ IsCheckout(q) /\ uid[q] = 1 /\ pc[q] = "done" /\ outcome[q] = "created"
        /\ \E k \in 1 .. Len(orders) : orders[k].user_id = 1

\* ---- C27 ----
\* the response a finished request got
ResponseOf(p) ==
    IF IsCheckout(p) THEN CheckoutResponse(outcome[p]) ELSE ItemNotFoundResponse

C28_OneCartPerUser ==
    /\ [](\A u \in Users : Cardinality(CartRows(carts, u)) <= 1)
    /\ [][\A c \in carts : c.tx = 0 => c \in carts']_vars

\* user 1 had no cart row; a get_my_cart and an add_cart_item of user 1
\* have both touched the cart and finished: there is one committed row
C28_Witness ==
    /\ \E p, q \in Procs :
          /\ p # q /\ uid[p] = 1 /\ uid[q] = 1
          /\ op[p] = "get_my_cart" /\ op[q] = "add"
          /\ pc[p] = "done" /\ pc[q] = "done" /\ outcome[q] = "ok"
    /\ \A ci \in cart_items : ci.user_id = 1 => ci.id >= 5
    /\ CartRows(carts, 1) = {[user_id |-> 1, tx |-> 0]}

\* ---- C29 ----
\* C29: in every reachable state every cart line holds at most 99 units,
\* also when two add_cart_item requests of one user for one variant both
\* run their check before either upsert is applied.
C29_LineQtyAtMost99 == \A ci \in cart_items : ci.quantity <= MaxLineQty

\* ---- C30 ----
\* C30: when a checkout commits, every cart line its DELETE removes is a
\* line of the order it creates, with the same variant and quantity, also
\* when an add_cart_item or update_cart_item of the same user committed
\* after the checkout had read the cart.
C30_DeletedLinesAreOrdered ==
    [][\A p \in Procs :
          CheckoutCommits(p) =>
              \A ci \in cart_items \ cart_items' :
                  \E i \in 1 .. Len(orders'[Len(orders')].items) :
                      LET l == orders'[Len(orders')].items[i]
                      IN  l.variant_id = ci.variant_id /\ l.quantity = ci.quantity]_vars

\* ---- C31 ----
\* C31: at all times, for every variant, the units that left available
\* since the start and the units that entered reserved both equal the sum
\* of the variant's quantities over all orders checkout has created; and a
\* checkout that ends without creating an order leaves every inventory row
\* as it was.
C31_CheckoutConserves ==
    /\ [](\A v \in Variants :
            /\ inv0[v].available - inventory[v].available = OrderedQty(v)
            /\ inventory[v].reserved - inv0[v].reserved = OrderedQty(v))
    /\ [][\A p \in Procs :
            (IsCheckout(p) /\ pc[p] # "done" /\ pc'[p] = "done"
               /\ outcome'[p] # "created") => inventory' = inventory]_vars

\* two committed orders hold the same variant, and the reserved count of
\* that variant is the sum of their quantities
C31_Witness ==
    \E v \in Variants :
        /\ Len(orders) = 2
        /\ QtyInOrder(orders[1], v) > 0 /\ QtyInOrder(orders[2], v) > 0
        /\ inventory[v].reserved = QtyInOrder(orders[1], v) + QtyInOrder(orders[2], v)

\* ---- C32 ----
\* C32: units counted in available can be put in a cart and bought: an
\* add_cart_item whose resulting line total is within the per-line cap and
\* within the variant's available count is not rejected, and a checkout
\* whose every line is within the available count of its variant is not
\* refused for insufficient stock.
C32_AvailableUnitsCanBeBought ==
    [][\A p \in Procs :
          /\ (pc[p] = "idle" /\ op'[p] = "add") =>
                LET v == arg'[p].variant_id
                    existing == {ci \in CartOf(cart_items, uid'[p]) : ci.variant_id = v}
                    new_total == arg'[p].quantity
                                 + (IF existing = {} THEN 0
                                    ELSE (CHOOSE ci \in existing : TRUE).quantity)
                IN  (new_total <= MaxLineQty /\ new_total <= inventory[v].available)
                        => outcome'[p] # "rejected"
          /\ (/\ pc[p] = "validate" /\ pc'[p] # "validate"
              /\ \A i \in 1 .. Len(snap[p]) :
                    snap[p][i].quantity <= inventory[snap[p][i].variant_id].available)
                => outcome'[p] # "insufficient"]_vars

\* ---- C33 ----
\* C33: when CartService.update_cart_item raises a line's quantity and the
\* reservation of the additional units fails after the line was written,
\* the request ends with the line holding its previous quantity.
C33_FailedRaiseRestoresLine ==
    [][\A p \in Procs :
          (/\ pc[p] = "svc_update_inv" /\ pc'[p] = "done"
           /\ arg[p].quantity > arg[p].current_item.quantity
           /\ outcome'[p] # "ok") =>
              \A ci \in cart_items' :
                  ci.id = arg[p].item_id =>
                      ci.quantity = arg[p].current_item.quantity]_vars

\* ---- C34 ----
\* a worker that finished the CartService request named
SvcFinished(p, name, result) ==
    op[p] = name /\ pc[p] = "done" /\ outcome[p] = result

\* C34: when one request has added a new line to a user's cart and a
\* second one has removed it (remove_cart_item of that line, or clear_cart
\* of a cart that held nothing else), and no other request has run, every
\* variant's reserved count is what it was before the add.
C34_ReleaseOnlyReserved ==
    \A p, q \in Procs :
        (/\ SvcFinished(p, "CartService.add_item_to_cart", "ok")
         /\ arg[p].existing_item = NoLine
         /\ uid[q] = uid[p]
         /\ \/ /\ SvcFinished(q, "CartService.remove_cart_item", "ok")
               /\ arg[q].current_item.variant_id = arg[p].variant_id
               /\ arg[q].current_item.quantity = arg[p].quantity
               /\ arg[q].item_id >= Cardinality(Users) * Cardinality(Variants) + 1
            \/ /\ SvcFinished(q, "CartService.clear_cart", "true")
               /\ Len(snap[q]) = 1
               /\ snap[q][1].variant_id = arg[p].variant_id
               /\ snap[q][1].quantity = arg[p].quantity
               /\ snap[q][1].id >= Cardinality(Users) * Cardinality(Variants) + 1
         /\ \A r \in Procs \ {p, q} : pc[r] = "idle") =>
            \A v \in Variants : inventory[v].reserved = inv0[v].reserved

\* ---- C35 ----
\* C35: a step of user A's checkout removes no cart line of another user
\* and adds no cart line, leaves every existing order with its lines as it
\* was, adds at most one order, which is A's, and changes no inventory row
\* of a variant that is not among the lines the checkout read.
C35_CheckoutFrame ==
    [][\A p \in Procs :
          (pc'[p] # pc[p] /\ op'[p] = "checkout") =>
              /\ cart_items' \subseteq cart_items
              /\ \A ci \in cart_items : ci.user_id # uid'[p] => ci \in cart_items'
              /\ \A k \in 1 .. Len(orders) : orders'[k] = orders[k]
              /\ Len(orders') \in {Len(orders), Len(orders) + 1}
              /\ Len(orders') = Len(orders) + 1 =>
                    orders'[Len(orders')].user_id = uid[p]
              /\ \A v \in Variants :
                    (\A i \in 1 .. Len(snap'[p]) : snap'[p][i].variant_id # v)
                        => inventory'[v] = inventory[v]]_vars

\* a checkout has committed while the other user's cart held lines, and an
\* inventory row of a variant outside the checked-out cart is as at the start
C35_Witness ==
    \E p \in Procs, v \in Variants :
        /\ IsCheckout(p) /\ pc[p] = "done" /\ outcome[p] = "created"
        /\ \E ci \in cart_items : ci.user_id # uid[p]
        /\ \A i \in 1 .. Len(snap[p]) : snap[p][i].variant_id # v
        /\ inventory[v] = inv0[v]
        /\ \E w \in Variants : inventory[w] # inv0[w]

C37_AddChecksLineTotal ==
    [][\A p \in Procs :
          (/\ pc[p] = "svc_add_write" /\ pc'[p] = "done"
           /\ LET row == inventory[arg[p].variant_id]
              IN  arg[p].existing_item.quantity + arg[p].quantity
                      > row.available - row.reserved) =>
              (outcome'[p] # "ok" /\ cart_items' = cart_items)]_vars

\* the reserve_inventory calls on variant v that returned True
ReserveCallsTrue(v) ==
    {p \in Procs : /\ op[p] = "reserve_inventory"
                   /\ arg[p].variant_id = v
                   /\ outcome[p] = "true"}

\* C38: under any interleaving of concurrent reserve_inventory calls on
\* one variant, the quantities of the calls that return True add up to at
\* most the net available stock before them (available - reserved), so
\* that reserve never takes reserved above available
C38_ConcurrentReserveBounded ==
    \A v \in Variants :
        /\ SumOver([p \in Procs |-> arg[p].quantity], ReserveCallsTrue(v))
              <= inv0[v].available - inv0[v].reserved
        /\ inventory[v].reserved <= inventory[v].available

\* two calls on variant 1 overlapped, both read a row with room for their
\* quantity, and the one that got the row lock second was turned down
C38_Witness ==
    /\ op[1] = "reserve_inventory" /\ op[2] = "reserve_inventory"
    /\ arg[1].variant_id = 1 /\ arg[2].variant_id = 1
    /\ arg[1].quantity > 0 /\ arg[2].quantity > 0
    /\ snap[1] = snap[2]
    /\ ReserveMatches(snap[2][1], arg[2].quantity)
    /\ outcome[1] = "true" /\ outcome[2] = "false"
    /\ pc[1] = "done" /\ pc[2] = "done"
====
